---- MODULE Spec2Model ----
(***************************************************************************)
(* Model of the practice-questions backend: the global middleware chain    *)
(* (extractRoles, authMiddleware), the Role Gate (requireRoles) and the    *)
(* resource controllers over the remote tables.                            *)
(*                                                                         *)
(* A JavaScript string that the code splits, trims or parses is a sequence *)
(* of tokens: a role word ("teacher"), or one of the punctuation tokens    *)
(* , [ ] " and the space.  The string 'admin' is <<"admin">>.              *)
(***************************************************************************)
EXTENDS Integers, Sequences, FiniteSets, TLC

\* ------------------------------------------------------------------ bounds

\* Longest role list a client encodes into the X-User-Roles header.
MaxRoles == 2

\* ------------------------------------------------------------------ state

VARIABLES
  client,     \* the roles the client holds and how it encodes them
  headers,    \* the request's X-User-ID and X-User-Roles headers
  required,   \* the role list of the route's requireRoles
  pc,         \* the middleware that runs next on the request
  userId,     \* req.userId
  userRoles,  \* req.userRoles
  status,     \* status of the response sent (GateNext while none is)
  db,         \* the remote tables: a sequence of rows each, row i has id i
  last,       \* the request served last, its response, the store before it
  sent        \* the envelopes written to the response of the request

mwVars == <<client, headers, required, pc, userId, userRoles, status>>

vars == <<mwVars, db, last, sent>>

\* ------------------------------------------------------------- JS strings

COMMA == ","
LBR == "["
RBR == "]"
QUOTE == "\""
SPACE == " "

RoleWords == {"teacher", "admin", "org", "student", "user"}

\* The string literal 'w' of the source.
Str(w) == <<w>>

\* An optional value (a header, req.userRoles, a route's role list):
\* undefined, or defined with value v.
Undefined == [def |-> FALSE, v |-> <<>>]
Def(x) == [def |-> TRUE, v |-> x]

\* JavaScript truthiness of an optional string: undefined and '' are falsy.
Truthy(o) == o.def /\ o.v # <<>>

\* String.prototype.split(','): the pieces between the commas.
RECURSIVE SplitComma(_)
SplitComma(s) ==
  IF \A i \in DOMAIN s : s[i] # COMMA THEN <<s>>
  ELSE LET k == CHOOSE i \in DOMAIN s :
                  s[i] = COMMA /\ \A j \in 1..(i - 1) : s[j] # COMMA
       IN <<SubSeq(s, 1, k - 1)>> \o SplitComma(SubSeq(s, k + 1, Len(s)))

\* String.prototype.trim(): leading and trailing spaces dropped.
RECURSIVE Trim(_)
Trim(s) ==
  IF s = <<>> THEN s
  ELSE IF Head(s) = SPACE THEN Trim(Tail(s))
  ELSE IF s[Len(s)] = SPACE THEN Trim(SubSeq(s, 1, Len(s) - 1))
  ELSE s

\* First index at or after i that holds no space (Len(s) + 1 when none).
RECURSIVE SkipWs(_, _)
SkipWs(s, i) == IF i <= Len(s) /\ s[i] = SPACE THEN SkipWs(s, i + 1) ELSE i

JsonFail == [ok |-> FALSE, isArray |-> FALSE, str |-> <<>>, arr |-> <<>>, next |-> 0]

\* A JSON string starting at s[i]: the tokens up to the closing quote.
JsonString(s, i) ==
  IF i > Len(s) \/ s[i] # QUOTE THEN JsonFail
  ELSE IF \A j \in (i + 1)..Len(s) : s[j] # QUOTE THEN JsonFail
  ELSE LET e == CHOOSE j \in (i + 1)..Len(s) :
                  s[j] = QUOTE /\ \A k \in (i + 1)..(j - 1) : s[k] # QUOTE
       IN [ok |-> TRUE, isArray |-> FALSE, str |-> SubSeq(s, i + 1, e - 1),
           arr |-> <<>>, next |-> e + 1]

\* The elements of a JSON array of strings after its first element: at s[i]
\* stands , (another element follows) or ] (the array ends).
RECURSIVE JsonElems(_, _, _)
JsonElems(s, i, acc) ==
  LET j == SkipWs(s, i) IN
  IF j > Len(s) THEN JsonFail
  ELSE IF s[j] = RBR
    THEN [ok |-> TRUE, isArray |-> TRUE, str |-> <<>>, arr |-> acc, next |-> j + 1]
  ELSE IF s[j] = COMMA
    THEN LET e == JsonString(s, SkipWs(s, j + 1)) IN
         IF e.ok THEN JsonElems(s, e.next, Append(acc, e.str)) ELSE JsonFail
  ELSE JsonFail

\* JSON.parse on a header value: a string, or an array of strings; every
\* other text over the token alphabet (a bare word, an unclosed bracket,
\* trailing text) is a SyntaxError.
JsonParse(s) ==
  LET i == SkipWs(s, 1) IN
  IF i > Len(s) THEN JsonFail
  ELSE LET val ==
         IF s[i] = QUOTE THEN JsonString(s, i)
         ELSE IF s[i] = LBR THEN
           LET j == SkipWs(s, i + 1) IN
           IF j <= Len(s) /\ s[j] = RBR
             THEN [ok |-> TRUE, isArray |-> TRUE, str |-> <<>>, arr |-> <<>>,
                   next |-> j + 1]
           ELSE LET e == JsonString(s, j) IN
                IF e.ok THEN JsonElems(s, e.next, <<e.str>>) ELSE JsonFail
         ELSE JsonFail
       IN IF val.ok /\ SkipWs(s, val.next) > Len(s) THEN val ELSE JsonFail

\* Array.prototype.includes / some over a list of role strings.
Includes(list, x) == \E i \in DOMAIN list : list[i] = x
SomeIn(list, allowed) == \E i \in DOMAIN list : Includes(allowed, list[i])

\* ------------------------------------------------------------- middleware

\* extractRoles: req.userRoles from the X-User-Roles header.
extractRoles(rolesHeader) ==
  IF Truthy(rolesHeader)
    THEN LET parts == SplitComma(rolesHeader.v)
         IN Def([i \in DOMAIN parts |-> Trim(parts[i])])
    ELSE Def(<<>>)

\* A variant of the identifier step that leaves req.userId empty when the
\* request carries no X-User-ID header.
authUserId_noFallback(idHeader) == IF Truthy(idHeader) THEN idHeader.v ELSE <<>>

\* authMiddleware, the identifier: req.userId from the X-User-ID header.
authUserId(idHeader) == IF Truthy(idHeader) THEN idHeader.v ELSE Str("anonymous")

\* authMiddleware, the roles: req.userRoles assigned again from the header.
authUserRoles(rolesHeader) ==
  IF Truthy(rolesHeader)
    THEN LET p == JsonParse(rolesHeader.v) IN
         IF ~p.ok THEN Def(<<rolesHeader.v>>)
         ELSE IF p.isArray THEN Def(p.arr)
         ELSE Def(<<p.str>>)
    ELSE Def(<<Str("user")>>)

GateNext == 0
UNAUTHORIZED == 401
FORBIDDEN == 403

\* A variant of requireRoles that looks at the caller's roles before it
\* looks at the route's list.
requireRoles_rolesFirst(requiredRoles, reqUserRoles) ==
  IF ~reqUserRoles.def \/ Len(reqUserRoles.v) = 0 THEN UNAUTHORIZED
  ELSE IF ~requiredRoles.def \/ Len(requiredRoles.v) = 0 THEN GateNext
  ELSE IF ~SomeIn(reqUserRoles.v, requiredRoles.v) THEN FORBIDDEN
  ELSE GateNext

\* requireRoles(requiredRoles)(req): GateNext when next() is called, else the
\* status of the error response.
requireRoles(requiredRoles, reqUserRoles) ==
  IF ~requiredRoles.def \/ Len(requiredRoles.v) = 0 THEN GateNext
  ELSE IF ~reqUserRoles.def \/ Len(reqUserRoles.v) = 0 THEN UNAUTHORIZED
  ELSE IF ~SomeIn(reqUserRoles.v, requiredRoles.v) THEN FORBIDDEN
  ELSE GateNext

\* globalChain: app.use(extractRoles); app.use(authMiddleware) run in this
\* order on every request; the second assigns req.userRoles again.
globalChain(idHeader, rolesHeader) ==
  LET afterExtract == [userId |-> <<>>, userRoles |-> extractRoles(rolesHeader)]
      afterAuth == [afterExtract EXCEPT !.userId = authUserId(idHeader),
                                        !.userRoles = authUserRoles(rolesHeader)]
  IN afterAuth

\* The role lists the routers hand to requireRoles.
MANAGE_ROLES == <<Str("teacher"), Str("admin"), Str("org")>>
VIEW_ROLES == <<Str("teacher"), Str("admin"), Str("org"), Str("student")>>
ENROLL_ROLES == <<Str("user"), Str("student"), Str("teacher"), Str("admin")>>
VIEW_OWN_ENROLLMENTS_ROLES == <<Str("user"), Str("student"), Str("teacher"), Str("admin")>>
VIEW_ALL_ENROLLMENTS_ROLES == <<Str("teacher"), Str("admin"), Str("org")>>
VIEW_ALL_PROFILES_ROLES == <<Str("admin"), Str("teacher")>>

\* ------------------------------------------------------------ the client

\* Role lists a client may hold, and the encodings of a list into the header.
RECURSIVE SeqsUpTo(_, _)
SeqsUpTo(S, n) ==
  IF n = 0 THEN {<<>>}
  ELSE LET shorter == SeqsUpTo(S, n - 1)
       IN shorter \cup {Append(q, x) : q \in shorter, x \in S}

ClientRoleLists == SeqsUpTo(RoleWords, MaxRoles)

RECURSIVE Join(_, _)
Join(parts, sep) ==
  IF parts = <<>> THEN <<>>
  ELSE IF Len(parts) = 1 THEN parts[1]
  ELSE parts[1] \o sep \o Join(Tail(parts), sep)

Quoted(w) == <<QUOTE, w, QUOTE>>

\* teacher,admin
CsvHeader(rs) == Join([i \in DOMAIN rs |-> Str(rs[i])], <<COMMA>>)
\* teacher, admin
CsvSpHeader(rs) == Join([i \in DOMAIN rs |-> Str(rs[i])], <<COMMA, SPACE>>)
\* ["teacher","admin"]
JsonHeader(rs) == <<LBR>> \o Join([i \in DOMAIN rs |-> Quoted(rs[i])], <<COMMA>>) \o <<RBR>>
\* ["teacher", "admin"]
JsonSpHeader(rs) ==
  <<LBR>> \o Join([i \in DOMAIN rs |-> Quoted(rs[i])], <<COMMA, SPACE>>) \o <<RBR>>

Forms == {"none", "csv", "csvsp", "json", "jsonsp"}

Encode(form, rs) ==
  CASE form = "none" -> Undefined
    [] form = "csv" -> Def(CsvHeader(rs))
    [] form = "csvsp" -> Def(CsvSpHeader(rs))
    [] form = "json" -> Def(JsonHeader(rs))
    [] form = "jsonsp" -> Def(JsonSpHeader(rs))

UserIds == {"u1", "u2"}
IdHeaders == {Undefined} \cup {Def(Str(u)) : u \in UserIds}

\* ---------------------------------------------------- the remote tables

\* Rows the whole store holds at most.
MaxRows == 2

OK == 200
CREATED == 201
BAD_REQUEST == 400
NOT_FOUND == 404
CONFLICT == 409
UNPROCESSABLE_ENTITY == 422
INTERNAL_SERVER_ERROR == 500

\* A body field that the request does not carry (undefined), and SQL NULL.
ABSENT == "<undefined>"
NULL == "<null>"
\* Truthiness of an optional text field of a JSON body.
Given(x) == x \notin {ABSENT, NULL, ""}

\* The tables whose rows are soft-deletable, and every table of the store.
Tables == {"exams", "subjects", "topics", "translations"}
AllTables == Tables \cup {"enrollments", "users"}
EmptyDb == [t \in AllTables |-> <<>>]
TotalRows(store) ==
  Len(store.exams) + Len(store.subjects) + Len(store.topics) + Len(store.translations)
    + Len(store.enrollments) + Len(store.users)

\* A row or a filter is a record; a row matches a filter (column=eq.value for
\* each of its columns) when it agrees with it on the filter's columns.
Matches(row, filter) == \A c \in DOMAIN filter : row[c] = filter[c]
Merge(row, data) ==
  [c \in DOMAIN row \cup DOMAIN data |-> IF c \in DOMAIN data THEN data[c] ELSE row[c]]

\* db.fetchData(table, queryParams): the rows that match, in table order.
fetchData(tbl, queryParams) == SelectSeq(tbl, LAMBDA r : Matches(r, queryParams))

\* What the store fills in on insert: the identifier and the flag columns.
RowDefaults(table, tbl) ==
  CASE table = "translations" ->
         [id |-> Len(tbl) + 1, is_published |-> FALSE, is_deleted |-> FALSE]
    [] table = "enrollments" -> [id |-> Len(tbl) + 1]
    [] table = "users" -> [id |-> Len(tbl) + 1, email |-> NULL, gender |-> NULL]
    [] OTHER -> [id |-> Len(tbl) + 1, is_active |-> TRUE, is_deleted |-> FALSE]

\* db.insertData(table, data): the table with the new row, and that row.
insertData(table, tbl, data) ==
  LET row == Merge(RowDefaults(table, tbl), data)
  IN [tbl |-> Append(tbl, row), row |-> row]

\* db.updateData(table, data, match): every matching row patched with data.
updateData(tbl, data, match) ==
  [i \in DOMAIN tbl |-> IF Matches(tbl[i], match) THEN Merge(tbl[i], data) ELSE tbl[i]]

\* A variant of the client's catch block that issues the request once more.
onRequestError_retriesOnce(requests) == IF requests < 2 THEN "retry" ELSE "throw"

\* The catch block of fetchData, insertData and updateData, requests being
\* the requests the call has issued: the error is logged and thrown again.
onRequestError(requests) == "throw"

\* ------------------------------------------------------------- responses

\* The identifiers of the rows a response carries, per table.
NoRows == [t \in Tables |-> {}]
RowsOf(table, rows) ==
  [t \in Tables |-> IF t = table THEN {rows[i].id : i \in DOMAIN rows} ELSE {}]

\* A JavaScript value handed to the formatter as data: undefined, null, an
\* array, an object, a number, a string or a boolean.  text is the literal
\* of a scalar and the name of an object, items the elements of an array and
\* the rows an object holds.
Js(kind, text, items) == [kind |-> kind, text |-> text, items |-> items]
JsUndefined == Js("undefined", "", <<>>)
JsNull == Js("null", "", <<>>)
JsArray(list) == Js("array", "", list)
JsTruthy(x) ==
  CASE x.kind \in {"undefined", "null"} -> FALSE
    [] x.kind = "number" -> x.text # "0"
    [] x.kind = "string" -> x.text # ""
    [] x.kind = "boolean" -> x.text = "true"
    [] OTHER -> TRUE

\* res.status(code).json(body): the envelope written to the response.
Envelope(code, outcome, message, data) ==
  [code |-> code, status |-> outcome, message |-> message, data |-> data]

\* sendSuccess(res, message, data = [], statusCode): the default applies to
\* undefined data; responseData = Array.isArray(data) ? data : (data || []).
sendSuccess(message, data, statusCode) ==
  LET given == IF data.kind = "undefined" THEN JsArray(<<>>) ELSE data
      responseData == IF given.kind = "array" THEN given
                      ELSE IF JsTruthy(given) THEN given
                      ELSE JsArray(<<>>)
  IN Envelope(statusCode, "Success", message, responseData)

\* sendError(res, message, statusCode): data is the empty list.
sendError(message, statusCode) == Envelope(statusCode, "Failure", message, JsArray(<<>>))

\* sendSuccess / sendError as the handler's outcome: the status, the store
\* afterwards and the rows in the envelope's data; failedInsert is the insert
\* of a batch that threw, counted from 1 (0: none did).
Reply(code, store, rows) ==
  [status |-> code, db |-> store, rows |-> rows, failedInsert |-> 0]

\* --------------------------------------------------------- exam controller

\* A variant of createExam that stores the fallback identifier as the owner.
createExam_anonymousOwner(store, req, fail) ==
  IF ~Given(req.body.name) THEN Reply(BAD_REQUEST, store, NoRows)
  ELSE IF req.userId = <<>> THEN Reply(BAD_REQUEST, store, NoRows)
  ELSE IF fail THEN Reply(INTERNAL_SERVER_ERROR, store, NoRows)
  ELSE LET examData == [name |-> req.body.name,
                        description |-> IF Given(req.body.description)
                                          THEN req.body.description ELSE NULL,
                        user_id |-> Str("anonymous")]
           ins == insertData("exams", store.exams, examData)
       IN Reply(CREATED, [store EXCEPT !.exams = ins.tbl], RowsOf("exams", <<ins.row>>))

createExam(store, req, fail) ==
  IF ~Given(req.body.name) THEN Reply(BAD_REQUEST, store, NoRows)
  ELSE IF req.userId = <<>> THEN Reply(BAD_REQUEST, store, NoRows)
  ELSE IF fail THEN Reply(INTERNAL_SERVER_ERROR, store, NoRows)
  ELSE LET examData == [name |-> req.body.name,
                        description |-> IF Given(req.body.description)
                                          THEN req.body.description ELSE NULL,
                        user_id |-> req.userId]
           ins == insertData("exams", store.exams, examData)
       IN Reply(CREATED, [store EXCEPT !.exams = ins.tbl], RowsOf("exams", <<ins.row>>))

getAllExams(store, req, fail) ==
  IF fail THEN Reply(INTERNAL_SERVER_ERROR, store, NoRows)
  ELSE LET exams == fetchData(store.exams, [is_deleted |-> FALSE, is_active |-> TRUE])
       IN Reply(OK, store, RowsOf("exams", exams))

getExamById(store, req, fail) ==
  IF req.id = 0 THEN Reply(BAD_REQUEST, store, NoRows)
  ELSE IF fail THEN Reply(INTERNAL_SERVER_ERROR, store, NoRows)
  ELSE LET exams == fetchData(store.exams,
                              [id |-> req.id, is_deleted |-> FALSE, is_active |-> TRUE])
       IN IF Len(exams) = 0 THEN Reply(NOT_FOUND, store, NoRows)
          ELSE Reply(OK, store, RowsOf("exams", <<exams[1]>>))

\* A variant of updateExamById whose update also writes the two flags.
updateExamById_reactivates(store, req, fail) ==
  IF req.id = 0 THEN Reply(BAD_REQUEST, store, NoRows)
  ELSE IF fail THEN Reply(INTERNAL_SERVER_ERROR, store, NoRows)
  ELSE LET exams == fetchData(store.exams, [id |-> req.id]) IN
    IF Len(exams) = 0 THEN Reply(NOT_FOUND, store, NoRows)
    ELSE IF exams[1].user_id # req.userId /\ ~Includes(req.userRoles, Str("admin"))
      THEN Reply(FORBIDDEN, store, NoRows)
    ELSE LET cols == {c \in {"name"} : Given(req.body[c])}
                       \cup {c \in {"description"} : req.body[c] # ABSENT}
                       \cup {"is_active", "is_deleted"}
             data == [c \in cols |-> CASE c = "is_active" -> TRUE
                                       [] c = "is_deleted" -> FALSE
                                       [] OTHER -> req.body[c]]
             updated == updateData(store.exams, data, [id |-> req.id])
         IN Reply(OK, [store EXCEPT !.exams = updated], RowsOf("exams", <<updated[req.id]>>))

updateExamById(store, req, fail) ==
  IF req.id = 0 THEN Reply(BAD_REQUEST, store, NoRows)
  ELSE IF fail THEN Reply(INTERNAL_SERVER_ERROR, store, NoRows)
  ELSE LET exams == fetchData(store.exams, [id |-> req.id]) IN
    IF Len(exams) = 0 THEN Reply(NOT_FOUND, store, NoRows)
    ELSE IF exams[1].user_id # req.userId /\ ~Includes(req.userRoles, Str("admin"))
      THEN Reply(FORBIDDEN, store, NoRows)
    ELSE LET cols == {c \in {"name"} : Given(req.body[c])}
                       \cup {c \in {"description"} : req.body[c] # ABSENT}
             data == [c \in cols |-> req.body[c]]
             updated == updateData(store.exams, data, [id |-> req.id])
         IN Reply(OK, [store EXCEPT !.exams = updated], RowsOf("exams", <<updated[req.id]>>))

\* A variant of deleteExamById that writes is_deleted alone.
\* A variant of deleteExamById that also soft-deletes the exam's subjects.
deleteExamById_cascades(store, req, fail) ==
  IF req.id = 0 THEN Reply(BAD_REQUEST, store, NoRows)
  ELSE IF fail THEN Reply(INTERNAL_SERVER_ERROR, store, NoRows)
  ELSE LET exams == fetchData(store.exams, [id |-> req.id, is_deleted |-> FALSE]) IN
    IF Len(exams) = 0 THEN Reply(NOT_FOUND, store, NoRows)
    ELSE IF exams[1].user_id # req.userId /\ ~Includes(req.userRoles, Str("admin"))
      THEN Reply(FORBIDDEN, store, NoRows)
    ELSE LET data == [is_deleted |-> TRUE, is_active |-> FALSE]
             updated == updateData(store.exams, data, [id |-> req.id])
             children == updateData(store.subjects, data, [exam_id |-> req.id])
         IN Reply(OK, [store EXCEPT !.exams = updated, !.subjects = children], NoRows)

deleteExamById_flagOnly(store, req, fail) ==
  IF req.id = 0 THEN Reply(BAD_REQUEST, store, NoRows)
  ELSE IF fail THEN Reply(INTERNAL_SERVER_ERROR, store, NoRows)
  ELSE LET exams == fetchData(store.exams, [id |-> req.id, is_deleted |-> FALSE]) IN
    IF Len(exams) = 0 THEN Reply(NOT_FOUND, store, NoRows)
    ELSE IF exams[1].user_id # req.userId /\ ~Includes(req.userRoles, Str("admin"))
      THEN Reply(FORBIDDEN, store, NoRows)
    ELSE LET data == [is_deleted |-> TRUE]
             updated == updateData(store.exams, data, [id |-> req.id])
         IN Reply(OK, [store EXCEPT !.exams = updated], NoRows)

deleteExamById(store, req, fail) ==
  IF req.id = 0 THEN Reply(BAD_REQUEST, store, NoRows)
  ELSE IF fail THEN Reply(INTERNAL_SERVER_ERROR, store, NoRows)
  ELSE LET exams == fetchData(store.exams, [id |-> req.id, is_deleted |-> FALSE]) IN
    IF Len(exams) = 0 THEN Reply(NOT_FOUND, store, NoRows)
    ELSE IF exams[1].user_id # req.userId /\ ~Includes(req.userRoles, Str("admin"))
      THEN Reply(FORBIDDEN, store, NoRows)
    ELSE LET data == [is_deleted |-> TRUE, is_active |-> FALSE]
             updated == updateData(store.exams, data, [id |-> req.id])
         IN Reply(OK, [store EXCEPT !.exams = updated], NoRows)

getExamsByUserId(store, req, fail) ==
  IF req.query = <<>> THEN Reply(BAD_REQUEST, store, NoRows)
  ELSE IF fail THEN Reply(INTERNAL_SERVER_ERROR, store, NoRows)
  ELSE LET exams == fetchData(store.exams,
                              [user_id |-> req.query, is_deleted |-> FALSE, is_active |-> TRUE])
       IN Reply(OK, store, RowsOf("exams", exams))

\* The nested read: the exam, its active subjects, each subject's active topics.
getExamWithSubjectsAndTopics(store, req, fail) ==
  IF req.id = 0 THEN Reply(BAD_REQUEST, store, NoRows)
  ELSE IF fail THEN Reply(INTERNAL_SERVER_ERROR, store, NoRows)
  ELSE LET exams == fetchData(store.exams,
                              [id |-> req.id, is_deleted |-> FALSE, is_active |-> TRUE]) IN
    IF Len(exams) = 0 THEN Reply(NOT_FOUND, store, NoRows)
    ELSE LET subjects == fetchData(store.subjects,
                           [exam_id |-> req.id, is_deleted |-> FALSE, is_active |-> TRUE])
             topicsOf(i) == fetchData(store.topics,
                           [subject_id |-> subjects[i].id, is_deleted |-> FALSE,
                            is_active |-> TRUE])
         IN Reply(OK, store,
                  [t \in Tables |->
                     CASE t = "exams" -> {exams[1].id}
                       [] t = "subjects" -> {subjects[i].id : i \in DOMAIN subjects}
                       [] t = "topics" ->
                            UNION {{topicsOf(i)[j].id : j \in DOMAIN topicsOf(i)} :
                                     i \in DOMAIN subjects}
                       [] OTHER -> {}])

\* ------------------------------------------------------ subject controller

ManagerRoles == <<Str("admin"), Str("org"), Str("teacher")>>

createSubject(store, req, fail) ==
  IF ~Given(req.body.name) THEN Reply(BAD_REQUEST, store, NoRows)
  ELSE IF req.body.exam_id = 0 THEN Reply(BAD_REQUEST, store, NoRows)
  ELSE IF ~SomeIn(req.userRoles, ManagerRoles) THEN Reply(FORBIDDEN, store, NoRows)
  ELSE IF req.userId = <<>> THEN Reply(BAD_REQUEST, store, NoRows)
  ELSE IF fail THEN Reply(INTERNAL_SERVER_ERROR, store, NoRows)
  ELSE LET subjectData == [name |-> req.body.name,
                           description |-> IF Given(req.body.description)
                                             THEN req.body.description ELSE NULL,
                           user_id |-> req.userId,
                           exam_id |-> req.body.exam_id]
           ins == insertData("subjects", store.subjects, subjectData)
       IN Reply(CREATED, [store EXCEPT !.subjects = ins.tbl],
                RowsOf("subjects", <<ins.row>>))

\* A variant of getAllSubjects that reads the table without a filter.
getAllSubjects_unfiltered(store, req, fail) ==
  IF fail THEN Reply(INTERNAL_SERVER_ERROR, store, NoRows)
  ELSE LET subjects == fetchData(store.subjects, <<>>)
       IN Reply(OK, store, RowsOf("subjects", subjects))

getAllSubjects(store, req, fail) ==
  IF fail THEN Reply(INTERNAL_SERVER_ERROR, store, NoRows)
  ELSE LET subjects == fetchData(store.subjects, [is_deleted |-> FALSE, is_active |-> TRUE])
       IN Reply(OK, store, RowsOf("subjects", subjects))

getSubjectsByExamId(store, req, fail) ==
  IF req.id = 0 THEN Reply(BAD_REQUEST, store, NoRows)
  ELSE IF fail THEN Reply(INTERNAL_SERVER_ERROR, store, NoRows)
  ELSE LET subjects == fetchData(store.subjects,
                         [exam_id |-> req.id, is_deleted |-> FALSE, is_active |-> TRUE])
       IN Reply(OK, store, RowsOf("subjects", subjects))

getSubjectById(store, req, fail) ==
  IF req.id = 0 THEN Reply(BAD_REQUEST, store, NoRows)
  ELSE IF fail THEN Reply(INTERNAL_SERVER_ERROR, store, NoRows)
  ELSE LET subjects == fetchData(store.subjects,
                         [id |-> req.id, is_deleted |-> FALSE, is_active |-> TRUE])
       IN IF Len(subjects) = 0 THEN Reply(NOT_FOUND, store, NoRows)
          ELSE Reply(OK, store, RowsOf("subjects", <<subjects[1]>>))

\* A variant of updateSubjectById that checks the role and not the owner.
updateSubjectById_roleOnly(store, req, fail) ==
  IF req.id = 0 THEN Reply(BAD_REQUEST, store, NoRows)
  ELSE IF ~SomeIn(req.userRoles, ManagerRoles) THEN Reply(FORBIDDEN, store, NoRows)
  ELSE IF fail THEN Reply(INTERNAL_SERVER_ERROR, store, NoRows)
  ELSE LET subjects == fetchData(store.subjects, [id |-> req.id]) IN
    IF Len(subjects) = 0 THEN Reply(NOT_FOUND, store, NoRows)
    ELSE LET cols == {c \in {"name"} : Given(req.body[c])}
                       \cup {c \in {"description"} : req.body[c] # ABSENT}
                       \cup {c \in {"exam_id"} : req.body[c] # 0}
             data == [c \in cols |-> req.body[c]]
             updated == updateData(store.subjects, data, [id |-> req.id])
         IN Reply(OK, [store EXCEPT !.subjects = updated],
                  RowsOf("subjects", <<updated[req.id]>>))

updateSubjectById(store, req, fail) ==
  IF req.id = 0 THEN Reply(BAD_REQUEST, store, NoRows)
  ELSE IF ~SomeIn(req.userRoles, ManagerRoles) THEN Reply(FORBIDDEN, store, NoRows)
  ELSE IF fail THEN Reply(INTERNAL_SERVER_ERROR, store, NoRows)
  ELSE LET subjects == fetchData(store.subjects, [id |-> req.id]) IN
    IF Len(subjects) = 0 THEN Reply(NOT_FOUND, store, NoRows)
    ELSE LET hasAuthorizedRole == SomeIn(req.userRoles, ManagerRoles) IN
      IF ~hasAuthorizedRole
         \/ (subjects[1].user_id # req.userId /\ ~Includes(req.userRoles, Str("admin")))
        THEN Reply(FORBIDDEN, store, NoRows)
      ELSE LET cols == {c \in {"name"} : Given(req.body[c])}
                         \cup {c \in {"description"} : req.body[c] # ABSENT}
                         \cup {c \in {"exam_id"} : req.body[c] # 0}
               data == [c \in cols |-> req.body[c]]
               updated == updateData(store.subjects, data, [id |-> req.id])
           IN Reply(OK, [store EXCEPT !.subjects = updated],
                    RowsOf("subjects", <<updated[req.id]>>))

\* A variant of deleteSubjectById that marks the row before it checks the owner.
deleteSubjectById_writesFirst(store, req, fail) ==
  IF req.id = 0 THEN Reply(BAD_REQUEST, store, NoRows)
  ELSE IF ~SomeIn(req.userRoles, ManagerRoles) THEN Reply(FORBIDDEN, store, NoRows)
  ELSE IF fail THEN Reply(INTERNAL_SERVER_ERROR, store, NoRows)
  ELSE LET subjects == fetchData(store.subjects, [id |-> req.id, is_deleted |-> FALSE]) IN
    IF Len(subjects) = 0 THEN Reply(NOT_FOUND, store, NoRows)
    ELSE LET data == [is_deleted |-> TRUE, is_active |-> FALSE]
             updated == updateData(store.subjects, data, [id |-> req.id])
         IN IF subjects[1].user_id # req.userId /\ ~Includes(req.userRoles, Str("admin"))
              THEN Reply(FORBIDDEN, [store EXCEPT !.subjects = updated], NoRows)
              ELSE Reply(OK, [store EXCEPT !.subjects = updated], NoRows)

deleteSubjectById(store, req, fail) ==
  IF req.id = 0 THEN Reply(BAD_REQUEST, store, NoRows)
  ELSE IF ~SomeIn(req.userRoles, ManagerRoles) THEN Reply(FORBIDDEN, store, NoRows)
  ELSE IF fail THEN Reply(INTERNAL_SERVER_ERROR, store, NoRows)
  ELSE LET subjects == fetchData(store.subjects, [id |-> req.id, is_deleted |-> FALSE]) IN
    IF Len(subjects) = 0 THEN Reply(NOT_FOUND, store, NoRows)
    ELSE LET hasAuthorizedRole == SomeIn(req.userRoles, ManagerRoles) IN
      IF ~hasAuthorizedRole
         \/ (subjects[1].user_id # req.userId /\ ~Includes(req.userRoles, Str("admin")))
        THEN Reply(FORBIDDEN, store, NoRows)
      ELSE LET data == [is_deleted |-> TRUE, is_active |-> FALSE]
               updated == updateData(store.subjects, data, [id |-> req.id])
           IN Reply(OK, [store EXCEPT !.subjects = updated], NoRows)

getSubjectsByUserId(store, req, fail) ==
  IF req.userId = <<>> THEN Reply(BAD_REQUEST, store, NoRows)
  ELSE IF fail THEN Reply(INTERNAL_SERVER_ERROR, store, NoRows)
  ELSE LET subjects == fetchData(store.subjects,
                         [user_id |-> req.userId, is_deleted |-> FALSE, is_active |-> TRUE])
       IN Reply(OK, store, RowsOf("subjects", subjects))

\* -------------------------------------------------------- topic controller

\* error.response.data.code of a failed remote call: 23505 is the store's
\* unique violation; "none" stands for every other failure.
UNIQUE_VIOLATION == "23505"
ErrorCodes == {UNIQUE_VIOLATION, "none"}

\* The status a controller's catch block answers to an error carrying code:
\* createTopic answers conflict to a unique violation, and every catch block
\* answers an internal error otherwise.
catchError(op, code) ==
  IF op = "createTopic" /\ code = UNIQUE_VIOLATION THEN CONFLICT
  ELSE INTERNAL_SERVER_ERROR

\* fail: a remote call of the request throws, its error carrying code.
createTopic(store, req, fail, code) ==
  IF ~Given(req.body.name) THEN Reply(BAD_REQUEST, store, NoRows)
  ELSE IF req.body.subject_id = 0 THEN Reply(BAD_REQUEST, store, NoRows)
  ELSE IF ~SomeIn(req.userRoles, ManagerRoles) THEN Reply(FORBIDDEN, store, NoRows)
  ELSE IF req.userId = <<>> THEN Reply(BAD_REQUEST, store, NoRows)
  ELSE IF fail THEN Reply(catchError("createTopic", code), store, NoRows)
  ELSE LET existingTopics == fetchData(store.topics,
                               [name |-> req.body.name, subject_id |-> req.body.subject_id])
       IN
    IF Len(existingTopics) > 0 THEN Reply(CONFLICT, store, NoRows)
    ELSE LET topicData == [name |-> req.body.name,
                           description |-> IF Given(req.body.description)
                                             THEN req.body.description ELSE NULL,
                           user_id |-> req.userId,
                           subject_id |-> req.body.subject_id]
             ins == insertData("topics", store.topics, topicData)
         IN Reply(CREATED, [store EXCEPT !.topics = ins.tbl], RowsOf("topics", <<ins.row>>))

getAllTopics(store, req, fail) ==
  IF fail THEN Reply(INTERNAL_SERVER_ERROR, store, NoRows)
  ELSE LET topics == fetchData(store.topics, [is_deleted |-> FALSE, is_active |-> TRUE])
       IN Reply(OK, store, RowsOf("topics", topics))

getTopicsBySubjectId(store, req, fail) ==
  IF req.id = 0 THEN Reply(BAD_REQUEST, store, NoRows)
  ELSE IF fail THEN Reply(INTERNAL_SERVER_ERROR, store, NoRows)
  ELSE LET topics == fetchData(store.topics,
                       [subject_id |-> req.id, is_deleted |-> FALSE, is_active |-> TRUE])
       IN Reply(OK, store, RowsOf("topics", topics))

\* The topics of an exam, each with its subject attached.
getTopicsByExamId(store, req, fail) ==
  IF req.id = 0 THEN Reply(BAD_REQUEST, store, NoRows)
  ELSE IF fail THEN Reply(INTERNAL_SERVER_ERROR, store, NoRows)
  ELSE LET subjects == fetchData(store.subjects,
                         [exam_id |-> req.id, is_deleted |-> FALSE, is_active |-> TRUE])
       IN
    IF Len(subjects) = 0 THEN Reply(OK, store, NoRows)
    ELSE LET topicsOf(i) == fetchData(store.topics,
                              [subject_id |-> subjects[i].id, is_deleted |-> FALSE,
                               is_active |-> TRUE])
             allTopics == UNION {{topicsOf(i)[j].id : j \in DOMAIN topicsOf(i)} :
                                   i \in DOMAIN subjects}
         IN Reply(OK, store,
                  [t \in Tables |->
                     CASE t = "topics" -> allTopics
                       [] t = "subjects" ->
                            {subjects[i].id : i \in {k \in DOMAIN subjects :
                                                       Len(topicsOf(k)) > 0}}
                       [] OTHER -> {}])

getTopicById(store, req, fail) ==
  IF req.id = 0 THEN Reply(BAD_REQUEST, store, NoRows)
  ELSE IF fail THEN Reply(INTERNAL_SERVER_ERROR, store, NoRows)
  ELSE LET topics == fetchData(store.topics,
                       [id |-> req.id, is_deleted |-> FALSE, is_active |-> TRUE])
       IN IF Len(topics) = 0 THEN Reply(NOT_FOUND, store, NoRows)
          ELSE Reply(OK, store, RowsOf("topics", <<topics[1]>>))

\* A variant of updateTopicById that also writes the requester as the owner.
updateTopicById_takesOwnership(store, req, fail) ==
  IF req.id = 0 THEN Reply(BAD_REQUEST, store, NoRows)
  ELSE IF ~SomeIn(req.userRoles, ManagerRoles) THEN Reply(FORBIDDEN, store, NoRows)
  ELSE IF fail THEN Reply(INTERNAL_SERVER_ERROR, store, NoRows)
  ELSE LET topics == fetchData(store.topics, [id |-> req.id]) IN
    IF Len(topics) = 0 THEN Reply(NOT_FOUND, store, NoRows)
    ELSE LET hasAuthorizedRole == SomeIn(req.userRoles, ManagerRoles) IN
      IF ~hasAuthorizedRole
         \/ (topics[1].user_id # req.userId /\ ~Includes(req.userRoles, Str("admin")))
        THEN Reply(FORBIDDEN, store, NoRows)
      ELSE LET cols == {c \in {"name"} : Given(req.body[c])}
                         \cup {c \in {"description"} : req.body[c] # ABSENT}
                         \cup {c \in {"subject_id"} : req.body[c] # 0}
                         \cup {"user_id"}
               data == [c \in cols |-> IF c = "user_id" THEN req.userId ELSE req.body[c]]
               updated == updateData(store.topics, data, [id |-> req.id])
           IN Reply(OK, [store EXCEPT !.topics = updated],
                    RowsOf("topics", <<updated[req.id]>>))

updateTopicById(store, req, fail) ==
  IF req.id = 0 THEN Reply(BAD_REQUEST, store, NoRows)
  ELSE IF ~SomeIn(req.userRoles, ManagerRoles) THEN Reply(FORBIDDEN, store, NoRows)
  ELSE IF fail THEN Reply(INTERNAL_SERVER_ERROR, store, NoRows)
  ELSE LET topics == fetchData(store.topics, [id |-> req.id]) IN
    IF Len(topics) = 0 THEN Reply(NOT_FOUND, store, NoRows)
    ELSE LET hasAuthorizedRole == SomeIn(req.userRoles, ManagerRoles) IN
      IF ~hasAuthorizedRole
         \/ (topics[1].user_id # req.userId /\ ~Includes(req.userRoles, Str("admin")))
        THEN Reply(FORBIDDEN, store, NoRows)
      ELSE LET cols == {c \in {"name"} : Given(req.body[c])}
                         \cup {c \in {"description"} : req.body[c] # ABSENT}
                         \cup {c \in {"subject_id"} : req.body[c] # 0}
               data == [c \in cols |-> req.body[c]]
               updated == updateData(store.topics, data, [id |-> req.id])
           IN Reply(OK, [store EXCEPT !.topics = updated],
                    RowsOf("topics", <<updated[req.id]>>))

\* A variant of deleteTopicById that exempts no role from the ownership check.
deleteTopicById_ownerOnly(store, req, fail) ==
  IF req.id = 0 THEN Reply(BAD_REQUEST, store, NoRows)
  ELSE IF ~SomeIn(req.userRoles, ManagerRoles) THEN Reply(FORBIDDEN, store, NoRows)
  ELSE IF fail THEN Reply(INTERNAL_SERVER_ERROR, store, NoRows)
  ELSE LET topics == fetchData(store.topics, [id |-> req.id, is_deleted |-> FALSE]) IN
    IF Len(topics) = 0 THEN Reply(NOT_FOUND, store, NoRows)
    ELSE IF topics[1].user_id # req.userId THEN Reply(FORBIDDEN, store, NoRows)
    ELSE LET data == [is_deleted |-> TRUE, is_active |-> FALSE]
             updated == updateData(store.topics, data, [id |-> req.id])
         IN Reply(OK, [store EXCEPT !.topics = updated], NoRows)

deleteTopicById(store, req, fail) ==
  IF req.id = 0 THEN Reply(BAD_REQUEST, store, NoRows)
  ELSE IF ~SomeIn(req.userRoles, ManagerRoles) THEN Reply(FORBIDDEN, store, NoRows)
  ELSE IF fail THEN Reply(INTERNAL_SERVER_ERROR, store, NoRows)
  ELSE LET topics == fetchData(store.topics, [id |-> req.id, is_deleted |-> FALSE]) IN
    IF Len(topics) = 0 THEN Reply(NOT_FOUND, store, NoRows)
    ELSE LET hasAuthorizedRole == SomeIn(req.userRoles, ManagerRoles) IN
      IF ~hasAuthorizedRole
         \/ (topics[1].user_id # req.userId /\ ~Includes(req.userRoles, Str("admin")))
        THEN Reply(FORBIDDEN, store, NoRows)
      ELSE LET data == [is_deleted |-> TRUE, is_active |-> FALSE]
               updated == updateData(store.topics, data, [id |-> req.id])
           IN Reply(OK, [store EXCEPT !.topics = updated], NoRows)

getTopicsByUserId(store, req, fail) ==
  IF req.userId = <<>> THEN Reply(BAD_REQUEST, store, NoRows)
  ELSE IF fail THEN Reply(INTERNAL_SERVER_ERROR, store, NoRows)
  ELSE LET topics == fetchData(store.topics,
                       [user_id |-> req.userId, is_deleted |-> FALSE, is_active |-> TRUE])
       IN Reply(OK, store, RowsOf("topics", topics))

\* [...new Set(list)]: the first occurrence of each element, in order.
RECURSIVE Unique(_)
Unique(list) ==
  IF list = <<>> THEN <<>>
  ELSE LET init == Unique(SubSeq(list, 1, Len(list) - 1))
           x == list[Len(list)]
       IN IF Includes(init, x) THEN init ELSE Append(init, x)

\* -------------------------------------------------- translation controller

\* A variant of createTranslation that looks for the key among the rows not
\* deleted.
createTranslation_activeOnly(store, req, fail) ==
  IF ~Given(req.body.key) THEN Reply(BAD_REQUEST, store, NoRows)
  ELSE IF ~Given(req.body.english) THEN Reply(BAD_REQUEST, store, NoRows)
  ELSE IF ~SomeIn(req.userRoles, ManagerRoles) THEN Reply(FORBIDDEN, store, NoRows)
  ELSE IF req.userId = <<>> THEN Reply(BAD_REQUEST, store, NoRows)
  ELSE IF fail THEN Reply(INTERNAL_SERVER_ERROR, store, NoRows)
  ELSE LET existingTranslations == fetchData(store.translations, [key |-> req.body.key, is_deleted |-> FALSE]) IN
    IF Len(existingTranslations) > 0 THEN Reply(CONFLICT, store, NoRows)
    ELSE LET translationData ==
               [key |-> req.body.key,
                english |-> req.body.english,
                is_published |-> IF req.body.is_published.def
                                   THEN req.body.is_published.v ELSE FALSE,
                created_by |-> req.userId,
                updated_by |-> req.userId]
             ins == insertData("translations", store.translations, translationData)
         IN Reply(CREATED, [store EXCEPT !.translations = ins.tbl],
                  RowsOf("translations", <<ins.row>>))

createTranslation(store, req, fail) ==
  IF ~Given(req.body.key) THEN Reply(BAD_REQUEST, store, NoRows)
  ELSE IF ~Given(req.body.english) THEN Reply(BAD_REQUEST, store, NoRows)
  ELSE IF ~SomeIn(req.userRoles, ManagerRoles) THEN Reply(FORBIDDEN, store, NoRows)
  ELSE IF req.userId = <<>> THEN Reply(BAD_REQUEST, store, NoRows)
  ELSE IF fail THEN Reply(INTERNAL_SERVER_ERROR, store, NoRows)
  ELSE LET existingTranslations == fetchData(store.translations, [key |-> req.body.key]) IN
    IF Len(existingTranslations) > 0 THEN Reply(CONFLICT, store, NoRows)
    ELSE LET translationData ==
               [key |-> req.body.key,
                english |-> req.body.english,
                is_published |-> IF req.body.is_published.def
                                   THEN req.body.is_published.v ELSE FALSE,
                created_by |-> req.userId,
                updated_by |-> req.userId]
             ins == insertData("translations", store.translations, translationData)
         IN Reply(CREATED, [store EXCEPT !.translations = ins.tbl],
                  RowsOf("translations", <<ins.row>>))

\* Every row, deleted and unpublished ones included.
getAllTranslations(store, req, fail) ==
  IF ~SomeIn(req.userRoles, ManagerRoles) THEN Reply(FORBIDDEN, store, NoRows)
  ELSE IF fail THEN Reply(INTERNAL_SERVER_ERROR, store, NoRows)
  ELSE Reply(OK, store, RowsOf("translations", fetchData(store.translations, <<>>)))

Languages == {"english", "hindi", "marathi"}

getTranslationsByLanguage(store, req, fail) ==
  IF req.userId = <<>> \/ req.userId = Str("anonymous")
    THEN Reply(UNAUTHORIZED, store, NoRows)
  ELSE IF req.language \notin Languages THEN Reply(BAD_REQUEST, store, NoRows)
  ELSE IF fail THEN Reply(INTERNAL_SERVER_ERROR, store, NoRows)
  ELSE LET translations == fetchData(store.translations,
                             [is_published |-> TRUE, is_deleted |-> FALSE])
       IN Reply(OK, store, RowsOf("translations", translations))

updateTranslation(store, req, fail) ==
  IF req.id = 0 THEN Reply(BAD_REQUEST, store, NoRows)
  ELSE IF ~SomeIn(req.userRoles, ManagerRoles) THEN Reply(FORBIDDEN, store, NoRows)
  ELSE IF fail THEN Reply(INTERNAL_SERVER_ERROR, store, NoRows)
  ELSE LET translations == fetchData(store.translations, [id |-> req.id]) IN
    IF Len(translations) = 0 THEN Reply(NOT_FOUND, store, NoRows)
    ELSE LET cols == {c \in {"key", "english"} : req.body[c] # ABSENT}
                       \cup {c \in {"is_published"} : req.body[c].def}
                       \cup {c \in {"updated_by"} : req.userId # <<>>}
             updateData_ == [c \in cols |->
                               CASE c = "is_published" -> req.body[c].v
                                 [] c = "updated_by" -> req.userId
                                 [] OTHER -> req.body[c]]
             updated == updateData(store.translations, updateData_, [id |-> req.id])
         IN Reply(OK, [store EXCEPT !.translations = updated],
                  RowsOf("translations", <<updated[req.id]>>))

\* A variant of deleteTranslation that looks the row up by identifier alone.
deleteTranslation_byIdOnly(store, req, fail) ==
  IF req.id = 0 THEN Reply(BAD_REQUEST, store, NoRows)
  ELSE IF ~SomeIn(req.userRoles, ManagerRoles) THEN Reply(FORBIDDEN, store, NoRows)
  ELSE IF fail THEN Reply(INTERNAL_SERVER_ERROR, store, NoRows)
  ELSE LET translations == fetchData(store.translations, [id |-> req.id]) IN
    IF Len(translations) = 0 THEN Reply(NOT_FOUND, store, NoRows)
    ELSE LET updateData_ == [is_deleted |-> TRUE, is_published |-> FALSE,
                             updated_by |-> req.userId]
             updated == updateData(store.translations, updateData_, [id |-> req.id])
         IN Reply(OK, [store EXCEPT !.translations = updated], NoRows)

deleteTranslation(store, req, fail) ==
  IF req.id = 0 THEN Reply(BAD_REQUEST, store, NoRows)
  ELSE IF ~SomeIn(req.userRoles, ManagerRoles) THEN Reply(FORBIDDEN, store, NoRows)
  ELSE IF fail THEN Reply(INTERNAL_SERVER_ERROR, store, NoRows)
  ELSE LET translations == fetchData(store.translations,
                             [id |-> req.id, is_deleted |-> FALSE]) IN
    IF Len(translations) = 0 THEN Reply(NOT_FOUND, store, NoRows)
    ELSE LET updateData_ == [is_deleted |-> TRUE, is_published |-> FALSE,
                             updated_by |-> req.userId]
             updated == updateData(store.translations, updateData_, [id |-> req.id])
         IN Reply(OK, [store EXCEPT !.translations = updated], NoRows)

\* The rows bulkCreateTranslations inserts, one insertData call per item.
RECURSIVE InsertEach(_, _)
InsertEach(tbl, datas) ==
  IF datas = <<>> THEN [tbl |-> tbl, rows |-> <<>>]
  ELSE LET ins == insertData("translations", tbl, Head(datas))
           rest == InsertEach(ins.tbl, Tail(datas))
       IN [tbl |-> rest.tbl, rows |-> <<ins.row>> \o rest.rows]

\* A variant of bulkCreateTranslations that leaves out the items whose key a
\* row holds and inserts the others.
bulkCreateTranslations_skipsExisting(store, req, failAt) ==
  IF ~req.body.translations.def \/ Len(req.body.translations.v) = 0
    THEN Reply(BAD_REQUEST, store, NoRows)
  ELSE IF ~SomeIn(req.userRoles, ManagerRoles) THEN Reply(FORBIDDEN, store, NoRows)
  ELSE IF req.userId = <<>> THEN Reply(BAD_REQUEST, store, NoRows)
  ELSE LET translations == req.body.translations.v
           keys == [i \in DOMAIN translations |-> translations[i].key] IN
    IF \E i \in DOMAIN translations :
         ~Given(translations[i].key) \/ ~Given(translations[i].english)
      THEN Reply(BAD_REQUEST, store, NoRows)
    ELSE IF Len(Unique(keys)) # Len(keys) THEN Reply(BAD_REQUEST, store, NoRows)
    ELSE IF failAt # 0 THEN Reply(INTERNAL_SERVER_ERROR, store, NoRows)
    ELSE LET fresh == SelectSeq(translations,
                        LAMBDA t : Len(fetchData(store.translations, [key |-> t.key])) = 0)
             translationDataArray ==
               [i \in DOMAIN fresh |->
                  [key |-> fresh[i].key, english |-> fresh[i].english,
                   is_published |-> IF fresh[i].is_published.def
                                      THEN fresh[i].is_published.v ELSE FALSE,
                   created_by |-> req.userId, updated_by |-> req.userId]]
             done == InsertEach(store.translations, translationDataArray)
         IN Reply(CREATED, [store EXCEPT !.translations = done.tbl],
                  RowsOf("translations", done.rows))


\* A variant of bulkCreateTranslations that undoes the inserts of a batch when
\* one of them fails.
bulkCreateTranslations_rollsBack(store, req, failAt) ==
  IF ~req.body.translations.def \/ Len(req.body.translations.v) = 0
    THEN Reply(BAD_REQUEST, store, NoRows)
  ELSE IF ~SomeIn(req.userRoles, ManagerRoles) THEN Reply(FORBIDDEN, store, NoRows)
  ELSE IF req.userId = <<>> THEN Reply(BAD_REQUEST, store, NoRows)
  ELSE LET translations == req.body.translations.v
           keys == [i \in DOMAIN translations |-> translations[i].key]
           uniqueKeys == Unique(keys) IN
    IF \E i \in DOMAIN translations :
         ~Given(translations[i].key) \/ ~Given(translations[i].english)
      THEN Reply(BAD_REQUEST, store, NoRows)
    ELSE IF Len(uniqueKeys) # Len(keys) THEN Reply(BAD_REQUEST, store, NoRows)
    ELSE IF failAt \in 1..Len(uniqueKeys) THEN Reply(INTERNAL_SERVER_ERROR, store, NoRows)
    ELSE LET existingKeys ==
               SelectSeq(uniqueKeys,
                         LAMBDA k : Len(fetchData(store.translations, [key |-> k])) > 0) IN
      IF Len(existingKeys) > 0 THEN Reply(CONFLICT, store, NoRows)
      ELSE LET translationDataArray ==
                 [i \in DOMAIN translations |->
                    [key |-> translations[i].key, english |-> translations[i].english,
                     is_published |-> IF translations[i].is_published.def
                                        THEN translations[i].is_published.v ELSE FALSE,
                     created_by |-> req.userId, updated_by |-> req.userId]]
               failedInsert == failAt - Len(uniqueKeys)
           IN IF failedInsert \in 1..Len(translationDataArray)
                THEN LET done == InsertEach(store.translations,
                                   SubSeq(translationDataArray, 1, failedInsert - 1))
                     IN [Reply(INTERNAL_SERVER_ERROR, store, NoRows)
                           EXCEPT !.failedInsert = failedInsert]
                ELSE LET done == InsertEach(store.translations, translationDataArray)
                     IN Reply(CREATED, [store EXCEPT !.translations = done.tbl],
                              RowsOf("translations", done.rows))

\* failAt is the remote call that fails, counted from 1: the lookups of the
\* keys come first, the inserts after them; 0 when every call is answered.
bulkCreateTranslations(store, req, failAt) ==
  IF ~req.body.translations.def \/ Len(req.body.translations.v) = 0
    THEN Reply(BAD_REQUEST, store, NoRows)
  ELSE IF ~SomeIn(req.userRoles, ManagerRoles) THEN Reply(FORBIDDEN, store, NoRows)
  ELSE IF req.userId = <<>> THEN Reply(BAD_REQUEST, store, NoRows)
  ELSE LET translations == req.body.translations.v
           keys == [i \in DOMAIN translations |-> translations[i].key]
           uniqueKeys == Unique(keys) IN
    IF \E i \in DOMAIN translations :
         ~Given(translations[i].key) \/ ~Given(translations[i].english)
      THEN Reply(BAD_REQUEST, store, NoRows)
    ELSE IF Len(uniqueKeys) # Len(keys) THEN Reply(BAD_REQUEST, store, NoRows)
    ELSE IF failAt \in 1..Len(uniqueKeys) THEN Reply(INTERNAL_SERVER_ERROR, store, NoRows)
    ELSE LET existingKeys ==
               SelectSeq(uniqueKeys,
                         LAMBDA k : Len(fetchData(store.translations, [key |-> k])) > 0) IN
      IF Len(existingKeys) > 0 THEN Reply(CONFLICT, store, NoRows)
      ELSE LET translationDataArray ==
                 [i \in DOMAIN translations |->
                    [key |-> translations[i].key, english |-> translations[i].english,
                     is_published |-> IF translations[i].is_published.def
                                        THEN translations[i].is_published.v ELSE FALSE,
                     created_by |-> req.userId, updated_by |-> req.userId]]
               failedInsert == failAt - Len(uniqueKeys)
           IN IF failedInsert \in 1..Len(translationDataArray)
                THEN LET done == InsertEach(store.translations,
                                   SubSeq(translationDataArray, 1, failedInsert - 1))
                     IN [Reply(INTERNAL_SERVER_ERROR,
                               [store EXCEPT !.translations = done.tbl], NoRows)
                           EXCEPT !.failedInsert = failedInsert]
                ELSE LET done == InsertEach(store.translations, translationDataArray)
                     IN Reply(CREATED, [store EXCEPT !.translations = done.tbl],
                              RowsOf("translations", done.rows))

\* --------------------------------------------------- enrollment controller

enrollInExams(store, req, fail) ==
  IF req.userId = <<>> \/ req.userId = Str("anonymous")
    THEN Reply(UNAUTHORIZED, store, NoRows)
  ELSE IF ~req.body.examIds.def \/ Len(req.body.examIds.v) = 0
    THEN Reply(BAD_REQUEST, store, NoRows)
  ELSE IF fail THEN Reply(INTERNAL_SERVER_ERROR, store, NoRows)
  ELSE LET examIds == req.body.examIds.v IN
    IF \E i \in DOMAIN examIds : Len(fetchData(store.exams, [id |-> examIds[i]])) = 0
      THEN Reply(NOT_FOUND, store, NoRows)
    ELSE LET existingEnrollments == fetchData(store.enrollments, [user_id |-> req.userId]) IN
      IF Len(existingEnrollments) > 0
        THEN LET uniqueExamIds == Unique(existingEnrollments[1].exam_ids \o examIds)
                 updated == updateData(store.enrollments, [exam_ids |-> uniqueExamIds],
                                       [user_id |-> req.userId])
             IN Reply(OK, [store EXCEPT !.enrollments = updated], NoRows)
        ELSE LET ins == insertData("enrollments", store.enrollments,
                                   [user_id |-> req.userId, exam_ids |-> examIds])
             IN Reply(OK, [store EXCEPT !.enrollments = ins.tbl], NoRows)

\* A variant of unenrollFromExams that empties the stored collection.
unenrollFromExams_clears(store, req, fail) ==
  IF req.userId = <<>> \/ req.userId = Str("anonymous")
    THEN Reply(UNAUTHORIZED, store, NoRows)
  ELSE IF ~req.body.examIds.def \/ Len(req.body.examIds.v) = 0
    THEN Reply(BAD_REQUEST, store, NoRows)
  ELSE IF fail THEN Reply(INTERNAL_SERVER_ERROR, store, NoRows)
  ELSE LET existingEnrollments == fetchData(store.enrollments, [user_id |-> req.userId]) IN
    IF Len(existingEnrollments) = 0 THEN Reply(NOT_FOUND, store, NoRows)
    ELSE LET updated == updateData(store.enrollments, [exam_ids |-> <<>>],
                                   [user_id |-> req.userId])
         IN Reply(OK, [store EXCEPT !.enrollments = updated], NoRows)

unenrollFromExams(store, req, fail) ==
  IF req.userId = <<>> \/ req.userId = Str("anonymous")
    THEN Reply(UNAUTHORIZED, store, NoRows)
  ELSE IF ~req.body.examIds.def \/ Len(req.body.examIds.v) = 0
    THEN Reply(BAD_REQUEST, store, NoRows)
  ELSE IF fail THEN Reply(INTERNAL_SERVER_ERROR, store, NoRows)
  ELSE LET examIds == req.body.examIds.v
           existingEnrollments == fetchData(store.enrollments, [user_id |-> req.userId]) IN
    IF Len(existingEnrollments) = 0 THEN Reply(NOT_FOUND, store, NoRows)
    ELSE LET currentExamIds == existingEnrollments[1].exam_ids
             updatedExamIds == SelectSeq(currentExamIds, LAMBDA id : ~Includes(examIds, id))
             updated == updateData(store.enrollments, [exam_ids |-> updatedExamIds],
                                   [user_id |-> req.userId])
         IN Reply(OK, [store EXCEPT !.enrollments = updated], NoRows)

\* The identifiers of the exams that the collection names and the exams
\* table holds, each fetched by identifier alone.
EnrolledExams(store, examIds) ==
  {examIds[i] : i \in {j \in DOMAIN examIds :
                          Len(fetchData(store.exams, [id |-> examIds[j]])) > 0}}

\* A variant of getUserEnrollments that fetches the exams that are not deleted.
getUserEnrollments_activeOnly(store, req, fail) ==
  LET requestedUserId == IF req.query # <<>> THEN req.query ELSE req.userId IN
  IF req.userId # requestedUserId /\ ~SomeIn(req.userRoles, <<Str("admin"), Str("teacher")>>)
    THEN Reply(FORBIDDEN, store, NoRows)
  ELSE IF fail THEN Reply(INTERNAL_SERVER_ERROR, store, NoRows)
  ELSE LET enrollments == fetchData(store.enrollments, [user_id |-> requestedUserId]) IN
    IF Len(enrollments) = 0 THEN Reply(OK, store, NoRows)
    ELSE LET enrolledExamIds == enrollments[1].exam_ids
             active == {enrolledExamIds[i] : i \in {j \in DOMAIN enrolledExamIds :
                          Len(fetchData(store.exams, [id |-> enrolledExamIds[j],
                                                      is_deleted |-> FALSE])) > 0}}
         IN Reply(OK, store, [NoRows EXCEPT !.exams = active])

\* viewMyEnrollments: the exams of the requested user's collection.
getUserEnrollments(store, req, fail) ==
  LET requestedUserId == IF req.query # <<>> THEN req.query ELSE req.userId IN
  IF req.userId # requestedUserId /\ ~SomeIn(req.userRoles, <<Str("admin"), Str("teacher")>>)
    THEN Reply(FORBIDDEN, store, NoRows)
  ELSE IF fail THEN Reply(INTERNAL_SERVER_ERROR, store, NoRows)
  ELSE LET enrollments == fetchData(store.enrollments, [user_id |-> requestedUserId]) IN
    IF Len(enrollments) = 0 THEN Reply(OK, store, NoRows)
    ELSE LET enrolledExamIds == enrollments[1].exam_ids
         IN Reply(OK, store, [NoRows EXCEPT !.exams = EnrolledExams(store, enrolledExamIds)])

\* viewAllEnrollments: every enrollment row with the exams of its collection.
getAllEnrollments(store, req, fail) ==
  IF Includes(req.userRoles, Str("student")) /\ ~SomeIn(req.userRoles, ManagerRoles)
    THEN Reply(FORBIDDEN, store, NoRows)
  ELSE IF fail THEN Reply(INTERNAL_SERVER_ERROR, store, NoRows)
  ELSE LET enrollments == fetchData(store.enrollments, <<>>) IN
    IF Len(enrollments) = 0 THEN Reply(OK, store, NoRows)
    ELSE Reply(OK, store,
               [NoRows EXCEPT !.exams =
                  UNION {EnrolledExams(store, enrollments[i].exam_ids) :
                           i \in DOMAIN enrollments}])

\* --------------------------------------------------------- auth controller

\* The role field of an authenticate body: absent, a string, or an array of
\* strings.
NoRole == [kind |-> "absent", v |-> <<>>]
RoleString(w) == [kind |-> "string", v |-> <<w>>]
RoleArray(list) == [kind |-> "array", v |-> list]

\* validateRequest(validationRules.authenticate): GateNext when next() is
\* called, else the status of the error response.  user_id and name must not
\* be empty and role must be an array (of strings).
validateRequest(body) ==
  IF Given(body.user_id) /\ Given(body.name) /\ body.role.kind = "array"
    THEN GateNext
    ELSE UNPROCESSABLE_ENTITY

\* A variant of userData that leaves gender out when the body leaves it out.
UserData_partial(body) ==
  LET cols == {"user_id", "is_anonymous", "is_approved"}
                \cup {c \in {"name", "email", "gender"} : body[c] # ABSENT}
                \cup {c \in {"role"} : body[c].kind # "absent"}
  IN [c \in cols |->
        CASE c \in {"is_anonymous", "is_approved"} -> IF body[c].def THEN body[c].v ELSE FALSE
          [] c = "role" -> body.role.v
          [] OTHER -> body[c]]

\* The fields of userData that are not undefined: JSON leaves those out.
\* is_anonymous and is_approved default to false, gender is gender || null
\* (dob and profile_picture are built the same way), email is passed as it
\* is (as is contact_number).
UserData(body) ==
  LET cols == {"user_id", "is_anonymous", "is_approved", "gender"}
                \cup {c \in {"name", "email"} : body[c] # ABSENT}
                \cup {c \in {"role"} : body[c].kind # "absent"}
  IN [c \in cols |->
        CASE c \in {"is_anonymous", "is_approved"} -> IF body[c].def THEN body[c].v ELSE FALSE
          [] c = "gender" -> IF Given(body.gender) THEN body.gender ELSE NULL
          [] c = "role" -> body.role.v
          [] OTHER -> body[c]]

\* A variant of authenticate that inserts without looking the user up.
authenticate_alwaysInserts(store, req, fail) ==
  IF ~Given(req.body.user_id) THEN Reply(BAD_REQUEST, store, NoRows)
  ELSE IF req.body.role.kind = "string" THEN Reply(BAD_REQUEST, store, NoRows)
  ELSE IF fail THEN Reply(INTERNAL_SERVER_ERROR, store, NoRows)
  ELSE LET ins == insertData("users", store.users, UserData(req.body))
       IN Reply(OK, [store EXCEPT !.users = ins.tbl], NoRows)

authenticate(store, req, fail) ==
  IF ~Given(req.body.user_id) THEN Reply(BAD_REQUEST, store, NoRows)
  ELSE IF req.body.role.kind = "string" THEN Reply(BAD_REQUEST, store, NoRows)
  ELSE IF fail THEN Reply(INTERNAL_SERVER_ERROR, store, NoRows)
  ELSE LET userData == UserData(req.body)
           existingUsers == fetchData(store.users, [user_id |-> req.body.user_id]) IN
    IF Len(existingUsers) > 0
      THEN LET updated == updateData(store.users, userData, [user_id |-> req.body.user_id])
           IN Reply(OK, [store EXCEPT !.users = updated], NoRows)
      ELSE LET ins == insertData("users", store.users, userData)
           IN Reply(OK, [store EXCEPT !.users = ins.tbl], NoRows)

\* ------------------------------------------------------------ the server

\* The server serves one request at a time: a request arrives while it is
\* idle, runs through the global chain, the route's Role Gate and the
\* controller, and the response is sent; then the server is idle again.

NoRequest ==
  [op |-> "none", id |-> 0, query |-> <<>>, body |-> <<>>, rows |-> NoRows,
   failedInsert |-> 0, before |-> EmptyDb]
NoClient == [roles |-> <<>>, form |-> "none"]
NoHeaders == [id |-> Undefined, roles |-> Undefined]

\* The X-User-ID and X-User-Roles headers of the requests.
CallerHeaders ==
  {[id |-> Def(Str("u1")), roles |-> Def(CsvHeader(<<"teacher">>))],
   [id |-> Def(Str("u2")), roles |-> Def(CsvHeader(<<"teacher">>))],
   [id |-> Def(Str("u2")), roles |-> Def(JsonHeader(<<"admin">>))],
   [id |-> Def(Str("u1")), roles |-> Def(JsonHeader(<<"student">>))],
   [id |-> Def(Str("u1")), roles |-> Def(JsonHeader(<<>>))],
   [id |-> Undefined, roles |-> Def(CsvHeader(<<"teacher">>))],
   [id |-> Undefined, roles |-> Undefined]}

\* The callers: the headers of a request and, as ctx, the req.userId and
\* req.userRoles that the global chain makes of them.
Callers ==
  {[id |-> h.id, roles |-> h.roles, ctx |-> globalChain(h.id, h.roles)] : h \in CallerHeaders}

\* Identifiers a request names in its path, query or body.
Ids == 1..MaxRows

\* Text a request body carries: the name of a new row, the name an update
\* writes, a translation key and its english text.
Names == {"n1"}
NewNames == {"n2"}
Keys == {"k1"}
Texts == {"e1"}

NoParams == [id |-> 0, query |-> <<>>, language |-> ""]

\* The request object the controller receives from caller.
Req(caller, params, body) ==
  [userId |-> caller.ctx.userId, userRoles |-> caller.ctx.userRoles.v,
   id |-> params.id, query |-> params.query, language |-> params.language, body |-> body]

\* Serve(op, roles, caller, params, body, reply): the request of caller to the
\* route op, mounted as requireRoles(roles), handler; reply is what the
\* handler answers to Req(caller, params, body) when the gate lets it run.
Serve(op, roles, caller, params, body, reply) ==
  LET ctx == caller.ctx
      gate == requireRoles(roles, ctx.userRoles)
      res == IF gate = GateNext THEN reply ELSE Reply(gate, db, NoRows)
  IN /\ TotalRows(res.db) <= MaxRows \/ TotalRows(res.db) <= TotalRows(db)
     /\ headers' = [id |-> caller.id, roles |-> caller.roles]
     /\ required' = roles
     /\ userId' = Def(ctx.userId)
     /\ userRoles' = ctx.userRoles
     /\ pc' = IF gate = GateNext THEN "controller" ELSE "rejected"
     /\ status' = res.status
     /\ db' = res.db
     /\ last' = [op |-> op, id |-> params.id, query |-> params.query, body |-> body,
                 rows |-> res.rows, failedInsert |-> res.failedInsert, before |-> db]
     /\ UNCHANGED <<client, sent>>

\* The response is sent and the server waits for the next request.
NextRequest ==
  /\ pc \in {"controller", "rejected"}
  /\ pc' = "idle"
  /\ headers' = NoHeaders
  /\ required' = Undefined
  /\ userId' = Undefined
  /\ userRoles' = Undefined
  /\ status' = GateNext
  /\ last' = NoRequest
  /\ UNCHANGED <<client, db, sent>>

ById(i) == [NoParams EXCEPT !.id = i]
InLanguage(l) == [NoParams EXCEPT !.language = l]

\* Request bodies: the name is given or left out, the description left out.
CreateBodies == [name : Names \cup {ABSENT}, description : {ABSENT}]
UpdateBodies == [name : NewNames \cup {ABSENT}, description : {ABSENT}]
WithParent(bodies, column, ids) ==
  {[c \in DOMAIN b \cup {column} |-> IF c = column THEN i ELSE b[c]] : b \in bodies, i \in ids}
OwnerQueries == {[NoParams EXCEPT !.query = Str(u)] : u \in UserIds}

\* ------------------------------------------------------------ exam routes

CreateExam ==
  /\ pc = "idle"
  /\ \E caller \in Callers, body \in CreateBodies, fail \in BOOLEAN :
       Serve("createExam", Def(MANAGE_ROLES), caller, NoParams, body,
             createExam(db, Req(caller, NoParams, body), fail))

GetAllExams ==
  /\ pc = "idle"
  /\ \E caller \in Callers, fail \in BOOLEAN :
       Serve("getAllExams", Def(VIEW_ROLES), caller, NoParams, <<>>,
             getAllExams(db, Req(caller, NoParams, <<>>), fail))

GetExamsByUser ==
  /\ pc = "idle"
  /\ \E caller \in Callers, params \in OwnerQueries, fail \in BOOLEAN :
       Serve("getExamsByUser", Def(VIEW_ROLES), caller, params, <<>>,
             getExamsByUserId(db, Req(caller, params, <<>>), fail))

GetExam ==
  /\ pc = "idle"
  /\ \E caller \in Callers, id \in Ids, fail \in BOOLEAN :
       Serve("getExam", Def(VIEW_ROLES), caller, ById(id), <<>>,
             getExamById(db, Req(caller, ById(id), <<>>), fail))

UpdateExam ==
  /\ pc = "idle"
  /\ \E caller \in Callers, id \in Ids, body \in UpdateBodies, fail \in BOOLEAN :
       Serve("updateExam", Def(MANAGE_ROLES), caller, ById(id), body,
             updateExamById(db, Req(caller, ById(id), body), fail))

DeleteExam ==
  /\ pc = "idle"
  /\ \E caller \in Callers, id \in Ids, fail \in BOOLEAN :
       Serve("deleteExam", Def(MANAGE_ROLES), caller, ById(id), <<>>,
             deleteExamById(db, Req(caller, ById(id), <<>>), fail))

\* The nested read, mounted like the other exam reads.
GetExamWithSubjectsAndTopics ==
  /\ pc = "idle"
  /\ \E caller \in Callers, id \in Ids, fail \in BOOLEAN :
       Serve("getExamWithSubjectsAndTopics", Def(VIEW_ROLES), caller, ById(id), <<>>,
             getExamWithSubjectsAndTopics(db, Req(caller, ById(id), <<>>), fail))

\* --------------------------------------------------------- subject routes

CreateSubject ==
  /\ pc = "idle"
  /\ \E caller \in Callers, body \in WithParent(CreateBodies, "exam_id", {1}),
        fail \in BOOLEAN :
       Serve("createSubject", Def(MANAGE_ROLES), caller, NoParams, body,
             createSubject(db, Req(caller, NoParams, body), fail))

GetAllSubjects ==
  /\ pc = "idle"
  /\ \E caller \in Callers, fail \in BOOLEAN :
       Serve("getAllSubjects", Def(VIEW_ROLES), caller, NoParams, <<>>,
             getAllSubjects(db, Req(caller, NoParams, <<>>), fail))

GetSubjectsByUser ==
  /\ pc = "idle"
  /\ \E caller \in Callers, fail \in BOOLEAN :
       Serve("getSubjectsByUser", Def(VIEW_ROLES), caller, NoParams, <<>>,
             getSubjectsByUserId(db, Req(caller, NoParams, <<>>), fail))

GetSubjectsByExam ==
  /\ pc = "idle"
  /\ \E caller \in Callers, id \in Ids, fail \in BOOLEAN :
       Serve("getSubjectsByExam", Def(VIEW_ROLES), caller, ById(id), <<>>,
             getSubjectsByExamId(db, Req(caller, ById(id), <<>>), fail))

GetSubject ==
  /\ pc = "idle"
  /\ \E caller \in Callers, id \in Ids, fail \in BOOLEAN :
       Serve("getSubject", Def(VIEW_ROLES), caller, ById(id), <<>>,
             getSubjectById(db, Req(caller, ById(id), <<>>), fail))

UpdateSubject ==
  /\ pc = "idle"
  /\ \E caller \in Callers, id \in Ids, body \in WithParent(UpdateBodies, "exam_id", {0}),
        fail \in BOOLEAN :
       Serve("updateSubject", Def(MANAGE_ROLES), caller, ById(id), body,
             updateSubjectById(db, Req(caller, ById(id), body), fail))

DeleteSubject ==
  /\ pc = "idle"
  /\ \E caller \in Callers, id \in Ids, fail \in BOOLEAN :
       Serve("deleteSubject", Def(MANAGE_ROLES), caller, ById(id), <<>>,
             deleteSubjectById(db, Req(caller, ById(id), <<>>), fail))

\* ----------------------------------------------------------- topic routes

CreateTopic ==
  /\ pc = "idle"
  /\ \E caller \in Callers, body \in WithParent(CreateBodies, "subject_id", {1}),
        fail \in BOOLEAN, code \in ErrorCodes :
       Serve("createTopic", Def(MANAGE_ROLES), caller, NoParams, body,
             createTopic(db, Req(caller, NoParams, body), fail, code))

GetAllTopics ==
  /\ pc = "idle"
  /\ \E caller \in Callers, fail \in BOOLEAN :
       Serve("getAllTopics", Def(VIEW_ROLES), caller, NoParams, <<>>,
             getAllTopics(db, Req(caller, NoParams, <<>>), fail))

GetTopicsByUser ==
  /\ pc = "idle"
  /\ \E caller \in Callers, fail \in BOOLEAN :
       Serve("getTopicsByUser", Def(VIEW_ROLES), caller, NoParams, <<>>,
             getTopicsByUserId(db, Req(caller, NoParams, <<>>), fail))

GetTopicsBySubject ==
  /\ pc = "idle"
  /\ \E caller \in Callers, id \in Ids, fail \in BOOLEAN :
       Serve("getTopicsBySubject", Def(VIEW_ROLES), caller, ById(id), <<>>,
             getTopicsBySubjectId(db, Req(caller, ById(id), <<>>), fail))

GetTopicsByExam ==
  /\ pc = "idle"
  /\ \E caller \in Callers, id \in Ids, fail \in BOOLEAN :
       Serve("getTopicsByExam", Def(VIEW_ROLES), caller, ById(id), <<>>,
             getTopicsByExamId(db, Req(caller, ById(id), <<>>), fail))

GetTopic ==
  /\ pc = "idle"
  /\ \E caller \in Callers, id \in Ids, fail \in BOOLEAN :
       Serve("getTopic", Def(VIEW_ROLES), caller, ById(id), <<>>,
             getTopicById(db, Req(caller, ById(id), <<>>), fail))

UpdateTopic ==
  /\ pc = "idle"
  /\ \E caller \in Callers, id \in Ids, body \in WithParent(UpdateBodies, "subject_id", {0}),
        fail \in BOOLEAN :
       Serve("updateTopic", Def(MANAGE_ROLES), caller, ById(id), body,
             updateTopicById(db, Req(caller, ById(id), body), fail))

DeleteTopic ==
  /\ pc = "idle"
  /\ \E caller \in Callers, id \in Ids, fail \in BOOLEAN :
       Serve("deleteTopic", Def(MANAGE_ROLES), caller, ById(id), <<>>,
             deleteTopicById(db, Req(caller, ById(id), <<>>), fail))

\* ----------------------------------------------------- translation routes

\* The translation routes mount authMiddleware and no Role Gate.
CreateTranslationBodies ==
  [key : Keys, english : Texts \cup {ABSENT}, is_published : {Def(TRUE)}]
UpdateTranslationBodies ==
  [key : {ABSENT}, english : {ABSENT}, is_published : {Undefined, Def(TRUE)}]

CreateTranslation ==
  /\ pc = "idle"
  /\ \E caller \in Callers, body \in CreateTranslationBodies, fail \in BOOLEAN :
       Serve("createTranslation", Undefined, caller, NoParams, body,
             createTranslation(db, Req(caller, NoParams, body), fail))

GetAllTranslations ==
  /\ pc = "idle"
  /\ \E caller \in Callers, fail \in BOOLEAN :
       Serve("getAllTranslations", Undefined, caller, NoParams, <<>>,
             getAllTranslations(db, Req(caller, NoParams, <<>>), fail))

GetTranslationsByLanguage ==
  /\ pc = "idle"
  /\ \E caller \in Callers, language \in {"english", "klingon"}, fail \in BOOLEAN :
       Serve("getTranslationsByLanguage", Undefined, caller, InLanguage(language), <<>>,
             getTranslationsByLanguage(db, Req(caller, InLanguage(language), <<>>), fail))

UpdateTranslation ==
  /\ pc = "idle"
  /\ \E caller \in Callers, id \in Ids, body \in UpdateTranslationBodies, fail \in BOOLEAN :
       Serve("updateTranslation", Undefined, caller, ById(id), body,
             updateTranslation(db, Req(caller, ById(id), body), fail))

DeleteTranslation ==
  /\ pc = "idle"
  /\ \E caller \in Callers, id \in Ids, fail \in BOOLEAN :
       Serve("deleteTranslation", Undefined, caller, ById(id), <<>>,
             deleteTranslation(db, Req(caller, ById(id), <<>>), fail))

\* Longest batch a bulk create carries.
MaxBatch == 2

\* The bodies of a bulk create: no translations field, or a batch of items.
BulkBodies(items) ==
  {[translations |-> Undefined]}
    \cup {[translations |-> Def(l)] : l \in SeqsUpTo(items, MaxBatch)}

\* The remote call of a bulk create that fails (0: none does).
FailPoints == 0..(2 * MaxBatch)

BulkCreateTranslations ==
  /\ pc = "idle"
  /\ \E caller \in Callers, body \in BulkBodies([key : Keys, english : Texts,
                                                 is_published : {Def(TRUE)}]),
        failAt \in FailPoints :
       Serve("bulkCreateTranslations", Undefined, caller, NoParams, body,
             bulkCreateTranslations(db, Req(caller, NoParams, body), failAt))

\* ------------------------------------------------------ enrollment routes

ExamIdLists == {Undefined} \cup {Def(l) : l \in SeqsUpTo(Ids, 2)}

EnrollInExams ==
  /\ pc = "idle"
  /\ \E caller \in Callers, examIds \in ExamIdLists, fail \in BOOLEAN :
       Serve("enrollInExams", Def(ENROLL_ROLES), caller, NoParams, [examIds |-> examIds],
             enrollInExams(db, Req(caller, NoParams, [examIds |-> examIds]), fail))

UnenrollFromExams ==
  /\ pc = "idle"
  /\ \E caller \in Callers, examIds \in ExamIdLists, fail \in BOOLEAN :
       Serve("unenrollFromExams", Def(ENROLL_ROLES), caller, NoParams, [examIds |-> examIds],
             unenrollFromExams(db, Req(caller, NoParams, [examIds |-> examIds]), fail))

GetUserEnrollments ==
  /\ pc = "idle"
  /\ \E caller \in Callers, params \in {NoParams} \cup OwnerQueries, fail \in BOOLEAN :
       Serve("getUserEnrollments", Def(VIEW_OWN_ENROLLMENTS_ROLES), caller, params, <<>>,
             getUserEnrollments(db, Req(caller, params, <<>>), fail))

GetAllEnrollments ==
  /\ pc = "idle"
  /\ \E caller \in Callers, fail \in BOOLEAN :
       Serve("getAllEnrollments", Def(VIEW_ALL_ENROLLMENTS_ROLES), caller, NoParams, <<>>,
             getAllEnrollments(db, Req(caller, NoParams, <<>>), fail))

\* ------------------------------------------------------ the specification

Init ==
  /\ client = NoClient
  /\ headers = NoHeaders
  /\ required = Undefined
  /\ pc = "idle"
  /\ userId = Undefined
  /\ userRoles = Undefined
  /\ status = GateNext
  /\ db = EmptyDb
  /\ last = NoRequest
  /\ sent = <<>>

Next ==
  \/ CreateExam \/ GetAllExams \/ GetExamsByUser \/ GetExam \/ UpdateExam \/ DeleteExam
  \/ GetExamWithSubjectsAndTopics
  \/ CreateSubject \/ GetAllSubjects \/ GetSubjectsByUser \/ GetSubjectsByExam
  \/ GetSubject \/ UpdateSubject \/ DeleteSubject
  \/ CreateTopic \/ GetAllTopics \/ GetTopicsByUser \/ GetTopicsBySubject
  \/ GetTopicsByExam \/ GetTopic \/ UpdateTopic \/ DeleteTopic
  \/ CreateTranslation \/ GetAllTranslations \/ GetTranslationsByLanguage
  \/ UpdateTranslation \/ DeleteTranslation \/ BulkCreateTranslations
  \/ EnrollInExams \/ UnenrollFromExams \/ GetUserEnrollments \/ GetAllEnrollments
  \/ NextRequest

Spec == Init /\ [][Next]_vars

\* ------------------------------------- the translation routes, key by key

\* The translation routes served with two keys in play: creates and bulk
\* creates of either key, updates that write the key, deletes.
TrKeys == {"k1", "k2"}
TrCallers == {c \in Callers : c.id = Def(Str("u1")) /\ c.ctx.userRoles.v # <<>>}
TrItems == [key : TrKeys, english : Texts \cup {ABSENT}, is_published : {Undefined}]
TrUpdateBodies == [key : TrKeys \cup {ABSENT}, english : {ABSENT}, is_published : {Undefined}]

TrCreateTranslation ==
  /\ pc = "idle"
  /\ \E caller \in TrCallers, body \in TrItems, fail \in BOOLEAN :
       Serve("createTranslation", Undefined, caller, NoParams, body,
             createTranslation(db, Req(caller, NoParams, body), fail))

TrBulkCreateTranslations ==
  /\ pc = "idle"
  /\ \E caller \in TrCallers, body \in BulkBodies(TrItems), failAt \in FailPoints :
       Serve("bulkCreateTranslations", Undefined, caller, NoParams, body,
             bulkCreateTranslations(db, Req(caller, NoParams, body), failAt))

TrUpdateTranslation ==
  /\ pc = "idle"
  /\ \E caller \in TrCallers, id \in Ids, body \in TrUpdateBodies, fail \in BOOLEAN :
       Serve("updateTranslation", Undefined, caller, ById(id), body,
             updateTranslation(db, Req(caller, ById(id), body), fail))

TrDeleteTranslation ==
  /\ pc = "idle"
  /\ \E caller \in TrCallers, id \in Ids, fail \in BOOLEAN :
       Serve("deleteTranslation", Undefined, caller, ById(id), <<>>,
             deleteTranslation(db, Req(caller, ById(id), <<>>), fail))

TrNext ==
  \/ TrCreateTranslation \/ TrBulkCreateTranslations \/ TrUpdateTranslation
  \/ TrDeleteTranslation \/ NextRequest

SpecTr == Init /\ [][TrNext]_vars

\* ----------------------------------------- the topic routes, name by name

\* The topic routes served with two names and two subjects in play: creates,
\* updates that write the name or the subject, deletes.
TopicNames == {"n1", "n2"}
TopicBodies(names, subjects) ==
  WithParent([name : names, description : {ABSENT}], "subject_id", subjects)

TopicCreate ==
  /\ pc = "idle"
  /\ \E caller \in TrCallers, body \in TopicBodies(TopicNames, Ids),
        fail \in BOOLEAN, code \in ErrorCodes :
       Serve("createTopic", Def(MANAGE_ROLES), caller, NoParams, body,
             createTopic(db, Req(caller, NoParams, body), fail, code))

TopicUpdate ==
  /\ pc = "idle"
  /\ \E caller \in TrCallers, id \in Ids,
        body \in TopicBodies(TopicNames \cup {ABSENT}, Ids \cup {0}), fail \in BOOLEAN :
       Serve("updateTopic", Def(MANAGE_ROLES), caller, ById(id), body,
             updateTopicById(db, Req(caller, ById(id), body), fail))

TopicDelete ==
  /\ pc = "idle"
  /\ \E caller \in TrCallers, id \in Ids, fail \in BOOLEAN :
       Serve("deleteTopic", Def(MANAGE_ROLES), caller, ById(id), <<>>,
             deleteTopicById(db, Req(caller, ById(id), <<>>), fail))

TopicNext == TopicCreate \/ TopicUpdate \/ TopicDelete \/ NextRequest

SpecTopic == Init /\ [][TopicNext]_vars

\* ------------------------------------- the update routes, field by field

\* The exam, subject and topic routes served with update bodies that carry
\* each updatable field left out, empty, null or given: the name is left out,
\* the empty string or a text, the description left out, null or a text, the
\* parent identifier left out (0) or given.
FieldBodies == [name : {ABSENT, "", "n2"}, description : {ABSENT, NULL, "d2"}]
\* The callers are identified managers: owners, and an admin who owns no row.
FieldCallers == {c \in Callers : c.id.def /\ SomeIn(c.ctx.userRoles.v, ManagerRoles)}

FieldCreate ==
  /\ pc = "idle"
  /\ \E caller \in FieldCallers, body \in CreateBodies, fail \in BOOLEAN :
       \/ Serve("createExam", Def(MANAGE_ROLES), caller, NoParams, body,
                createExam(db, Req(caller, NoParams, body), fail))
       \/ LET b == [name |-> body.name, description |-> body.description, exam_id |-> 1]
          IN Serve("createSubject", Def(MANAGE_ROLES), caller, NoParams, b,
                   createSubject(db, Req(caller, NoParams, b), fail))
       \/ LET b == [name |-> body.name, description |-> body.description, subject_id |-> 1]
          IN Serve("createTopic", Def(MANAGE_ROLES), caller, NoParams, b,
                   createTopic(db, Req(caller, NoParams, b), fail, "none"))

FieldUpdateExam ==
  /\ pc = "idle"
  /\ \E caller \in FieldCallers, id \in Ids, body \in FieldBodies, fail \in BOOLEAN :
       Serve("updateExam", Def(MANAGE_ROLES), caller, ById(id), body,
             updateExamById(db, Req(caller, ById(id), body), fail))

FieldUpdateSubject ==
  /\ pc = "idle"
  /\ \E caller \in FieldCallers, id \in Ids,
        body \in WithParent(FieldBodies, "exam_id", {0, 2}), fail \in BOOLEAN :
       Serve("updateSubject", Def(MANAGE_ROLES), caller, ById(id), body,
             updateSubjectById(db, Req(caller, ById(id), body), fail))

FieldUpdateTopic ==
  /\ pc = "idle"
  /\ \E caller \in FieldCallers, id \in Ids,
        body \in WithParent(FieldBodies, "subject_id", {0, 2}), fail \in BOOLEAN :
       Serve("updateTopic", Def(MANAGE_ROLES), caller, ById(id), body,
             updateTopicById(db, Req(caller, ById(id), body), fail))

FieldDelete ==
  /\ pc = "idle"
  /\ \E caller \in FieldCallers, id \in Ids :
       \/ Serve("deleteExam", Def(MANAGE_ROLES), caller, ById(id), <<>>,
                deleteExamById(db, Req(caller, ById(id), <<>>), FALSE))
       \/ Serve("deleteSubject", Def(MANAGE_ROLES), caller, ById(id), <<>>,
                deleteSubjectById(db, Req(caller, ById(id), <<>>), FALSE))
       \/ Serve("deleteTopic", Def(MANAGE_ROLES), caller, ById(id), <<>>,
                deleteTopicById(db, Req(caller, ById(id), <<>>), FALSE))

FieldNext ==
  \/ FieldCreate \/ FieldUpdateExam \/ FieldUpdateSubject \/ FieldUpdateTopic
  \/ FieldDelete \/ NextRequest

SpecField == Init /\ [][FieldNext]_vars

\* ------------------------- soft deletes and reads over a stored hierarchy

\* The store after caller created an exam, a subject of it and a topic of
\* that subject.
Hierarchy(caller) ==
  LET named == [name |-> "n1", description |-> ABSENT]
      ofExam == [name |-> "n1", description |-> ABSENT, exam_id |-> 1]
      ofSubject == [name |-> "n1", description |-> ABSENT, subject_id |-> 1]
      withExam == createExam(EmptyDb, Req(caller, NoParams, named), FALSE).db
      withSubject == createSubject(withExam, Req(caller, NoParams, ofExam), FALSE).db
  IN createTopic(withSubject, Req(caller, NoParams, ofSubject), FALSE, "none").db

CascadeInit ==
  /\ client = NoClient
  /\ headers = NoHeaders
  /\ required = Undefined
  /\ pc = "idle"
  /\ userId = Undefined
  /\ userRoles = Undefined
  /\ status = GateNext
  /\ \E caller \in FieldCallers : db = Hierarchy(caller)
  /\ last = NoRequest
  /\ sent = <<>>

CascadeReadSubjects ==
  /\ pc = "idle"
  /\ \E caller \in FieldCallers, id \in Ids :
       \/ Serve("getAllSubjects", Def(VIEW_ROLES), caller, NoParams, <<>>,
                getAllSubjects(db, Req(caller, NoParams, <<>>), FALSE))
       \/ Serve("getSubjectsByExam", Def(VIEW_ROLES), caller, ById(id), <<>>,
                getSubjectsByExamId(db, Req(caller, ById(id), <<>>), FALSE))

CascadeReadTopics ==
  /\ pc = "idle"
  /\ \E caller \in FieldCallers, id \in Ids :
       \/ Serve("getAllTopics", Def(VIEW_ROLES), caller, NoParams, <<>>,
                getAllTopics(db, Req(caller, NoParams, <<>>), FALSE))
       \/ Serve("getTopicsBySubject", Def(VIEW_ROLES), caller, ById(id), <<>>,
                getTopicsBySubjectId(db, Req(caller, ById(id), <<>>), FALSE))

CascadeNext == FieldDelete \/ CascadeReadSubjects \/ CascadeReadTopics \/ NextRequest

SpecCascade == CascadeInit /\ [][CascadeNext]_vars

\* ------------------------------------------------------- the auth route

\* POST /api/auth/authenticate: validateRequest, then authenticate; the route
\* has no Role Gate.  The callers send no identity headers.
AuthCallers == {c \in Callers : ~c.id.def}
UserNames == {"a", "b"}
AuthBodies ==
  [user_id : UserIds \cup {ABSENT}, name : UserNames \cup {ABSENT},
   role : {NoRole, RoleString("student"), RoleArray(<<"student">>)},
   is_approved : {Undefined, Def(TRUE)}, is_anonymous : {Undefined},
   gender : {ABSENT}, email : {ABSENT}]

Authenticate ==
  /\ pc = "idle"
  /\ \E caller \in AuthCallers, body \in AuthBodies, fail \in BOOLEAN :
       Serve("authenticate", Undefined, caller, NoParams, body,
             IF validateRequest(body) = GateNext
               THEN authenticate(db, Req(caller, NoParams, body), fail)
               ELSE Reply(validateRequest(body), db, NoRows))

AuthNext == Authenticate \/ NextRequest

SpecAuth == Init /\ [][AuthNext]_vars

\* ------------------------------------- the auth route, field by field

\* The valid bodies of authenticate, each optional field left out or given.
ProfileBodies ==
  [user_id : UserIds, name : {"a"}, role : {RoleArray(<<"student">>)},
   is_approved : {Undefined, Def(TRUE)}, is_anonymous : {Undefined, Def(TRUE)},
   gender : {ABSENT, "f"}, email : {ABSENT, "e"}]

AuthenticateProfile ==
  /\ pc = "idle"
  /\ \E caller \in AuthCallers, body \in ProfileBodies, fail \in BOOLEAN :
       Serve("authenticate", Undefined, caller, NoParams, body,
             IF validateRequest(body) = GateNext
               THEN authenticate(db, Req(caller, NoParams, body), fail)
               ELSE Reply(validateRequest(body), db, NoRows))

ProfileNext == AuthenticateProfile \/ NextRequest

SpecProfile == Init /\ [][ProfileNext]_vars

\* ------------------------------------------------- the response formatter

\* A controller hands the formatter a message, data and a status code; the
\* formatter writes one envelope to the response.
SomeRows == {Js("object", r, <<>>) : r \in {"row1", "row2"}}
Payloads ==
  {JsUndefined, JsNull}
    \cup {JsArray(l) : l \in SeqsUpTo(SomeRows, 2)}
    \cup SomeRows
    \cup {Js("object", "enrollments,count", l) : l \in SeqsUpTo(SomeRows, 1)}
    \cup {Js("number", n, <<>>) : n \in {"0", "1"}}
    \cup {Js("string", t, <<>>) : t \in {"", "x"}}
    \cup {Js("boolean", b, <<>>) : b \in {"false", "true"}}
Messages == {"m1", "m2"}

RespInit ==
  /\ client = NoClient
  /\ headers = NoHeaders
  /\ required = Undefined
  /\ pc = "controller"
  /\ userId = Undefined
  /\ userRoles = Undefined
  /\ status = GateNext
  /\ db = EmptyDb
  /\ last \in [op : {"sendSuccess"}, message : Messages, data : Payloads,
                code : {OK, CREATED}]
              \cup [op : {"sendError"}, message : Messages, data : {JsUndefined},
                     code : {BAD_REQUEST, NOT_FOUND, INTERNAL_SERVER_ERROR}]
  /\ sent = <<>>

SendSuccess ==
  /\ pc = "controller" /\ last.op = "sendSuccess"
  /\ sent' = Append(sent, sendSuccess(last.message, last.data, last.code))
  /\ status' = last.code
  /\ pc' = "done"
  /\ UNCHANGED <<client, headers, required, userId, userRoles, db, last>>

SendError ==
  /\ pc = "controller" /\ last.op = "sendError"
  /\ sent' = Append(sent, sendError(last.message, last.code))
  /\ status' = last.code
  /\ pc' = "done"
  /\ UNCHANGED <<client, headers, required, userId, userRoles, db, last>>

RespNext == SendSuccess \/ SendError

SpecResp == RespInit /\ [][RespNext]_vars

\* ------------------------------------- a controller's remote calls, stepwise

\* The remote calls a handler makes, in order, on a request that passes its
\* checks: each call goes through the Remote Table Client, which issues the
\* request to the store and returns its answer or throws its failure.
CallPlans ==
  {[op |-> "createExam", calls |-> <<"insertData">>],
   [op |-> "getAllExams", calls |-> <<"fetchData">>],
   [op |-> "updateSubject", calls |-> <<"fetchData", "updateData">>],
   [op |-> "deleteTopic", calls |-> <<"fetchData", "updateData">>],
   [op |-> "createTopic", calls |-> <<"fetchData", "insertData">>],
   [op |-> "createTranslation", calls |-> <<"fetchData", "insertData">>],
   [op |-> "enrollInExams", calls |-> <<"fetchData", "fetchData", "insertData">>],
   [op |-> "unenrollFromExams", calls |-> <<"fetchData", "updateData">>],
   [op |-> "authenticate", calls |-> <<"fetchData", "updateData">>],
   [op |-> "bulkCreateTranslations",
    calls |-> <<"fetchData", "fetchData", "insertData", "insertData">>]}

CallInit ==
  /\ client = NoClient
  /\ headers = NoHeaders
  /\ required = Undefined
  /\ pc = "controller"
  /\ userId = Undefined
  /\ userRoles = Undefined
  /\ status = GateNext
  /\ db = EmptyDb
  /\ \E plan \in CallPlans :
       last = [op |-> plan.op, calls |-> plan.calls, call |-> 1,
               requests |-> [k \in DOMAIN plan.calls |-> 0], failed |-> FALSE,
               code |-> "none"]
  /\ sent = <<>>

\* The controller awaits its next db call.
CallClient ==
  /\ pc = "controller" /\ last.call <= Len(last.calls)
  /\ pc' = "client"
  /\ UNCHANGED <<client, headers, required, userId, userRoles, status, db, last, sent>>

\* The client issues the HTTP request of the call.
IssueRequest ==
  /\ pc = "client"
  /\ last' = [last EXCEPT !.requests[last.call] = @ + 1]
  /\ pc' = "remote"
  /\ UNCHANGED <<client, headers, required, userId, userRoles, status, db, sent>>

\* The store answers 2xx: the call returns response.data to the controller.
RemoteAnswers ==
  /\ pc = "remote"
  /\ last' = [last EXCEPT !.call = @ + 1]
  /\ pc' = "controller"
  /\ UNCHANGED <<client, headers, required, userId, userRoles, status, db, sent>>

\* The request fails (transport, or a non-2xx answer); a write may fail with
\* a unique violation.
RemoteFails ==
  /\ pc = "remote"
  /\ \E code \in ErrorCodes :
       /\ code = UNIQUE_VIOLATION => last.calls[last.call] # "fetchData"
       /\ last' = [last EXCEPT !.failed = TRUE, !.code = code]
  /\ pc' = "clientCatch"
  /\ UNCHANGED <<client, headers, required, userId, userRoles, status, db, sent>>

\* The client's catch block.
ClientCatch ==
  /\ pc = "clientCatch"
  /\ pc' = IF onRequestError(last.requests[last.call]) = "throw"
             THEN "controllerCatch" ELSE "client"
  /\ UNCHANGED <<client, headers, required, userId, userRoles, status, db, last, sent>>

\* The controller's catch block answers with sendError.
ControllerCatch ==
  /\ pc = "controllerCatch"
  /\ sent' = Append(sent, sendError("m1", catchError(last.op, last.code)))
  /\ status' = catchError(last.op, last.code)
  /\ pc' = "done"
  /\ UNCHANGED <<client, headers, required, userId, userRoles, db, last>>

\* Every call has returned: the controller answers with sendSuccess.
ControllerReplies ==
  /\ pc = "controller" /\ last.call > Len(last.calls)
  /\ sent' = Append(sent, sendSuccess("m1", JsArray(<<>>), OK))
  /\ status' = OK
  /\ pc' = "done"
  /\ UNCHANGED <<client, headers, required, userId, userRoles, db, last>>

CallNext ==
  \/ CallClient \/ IssueRequest \/ RemoteAnswers \/ RemoteFails
  \/ ClientCatch \/ ControllerCatch \/ ControllerReplies

SpecCall == CallInit /\ [][CallNext]_vars

\* ------------------------------------------- concurrent enrollment requests

\* Two handler invocations in flight at once, each suspended at its awaits:
\* the lookup of the exams, the fetch of the user's enrollment row and the
\* write are separate remote calls, and the calls of the two invocations
\* interleave in any order.

Slots == {1, 2}
EnrollUsers == {Str("u1"), Str("u2")}
\* Exams 1 and 2 exist; 3 names no exam.
EnrollLists == {<<1>>, <<2>>, <<3>>}
EnrollOps == {"enrollInExams", "unenrollFromExams"}

NoInvocation ==
  [pc |-> "idle", op |-> "none", userId |-> <<>>, examIds |-> <<>>,
   existingEnrollments |-> <<>>, status |-> GateNext, code |-> "none"]

\* A variant of the constraint that admits every row.
enrollments_user_id_unique_dropped(tbl, data) == TRUE

\* CONSTRAINT enrollments_user_id_unique UNIQUE (user_id): the store admits
\* the row when no row of the table holds its user_id.
enrollments_user_id_unique(tbl, data) ==
  Len(fetchData(tbl, [user_id |-> data.user_id])) = 0

\* A variant of the enroll write that reads the stored collection at the
\* time of the write instead of the collection the handler fetched.
enrollUpdate_atomic(tbl, existingEnrollments, examIds, user) ==
  updateData(tbl,
             [exam_ids |-> Unique(fetchData(tbl, [user_id |-> user])[1].exam_ids \o examIds)],
             [user_id |-> user])

\* enrollInExams, the update branch: the union of the fetched collection and
\* the requested identifiers replaces the stored collection.
enrollUpdate(tbl, existingEnrollments, examIds, user) ==
  LET existingExamIds == existingEnrollments[1].exam_ids
      uniqueExamIds == Unique(existingExamIds \o examIds)
  IN updateData(tbl, [exam_ids |-> uniqueExamIds], [user_id |-> user])

\* The store holds two exams, created by a teacher.
EnrollInit ==
  /\ client = NoClient
  /\ headers = NoHeaders
  /\ required = Undefined
  /\ pc = "idle"
  /\ userId = Undefined
  /\ userRoles = Undefined
  /\ status = GateNext
  /\ db = [EmptyDb EXCEPT !.exams =
             insertData("exams",
                        insertData("exams", <<>>,
                                   [name |-> "n1", description |-> NULL,
                                    user_id |-> Str("u2")]).tbl,
                        [name |-> "n2", description |-> NULL, user_id |-> Str("u2")]).tbl]
  /\ last = [reqs |-> [s \in Slots |-> NoInvocation],
             writer |-> [u \in EnrollUsers |-> 0]]
  /\ sent = <<>>

\* An identified student posts to /enrollToExams or /unenrollFromExam; the
\* checks of userId and examIds pass and the handler awaits its first call.
EnrollArrives ==
  \E s \in Slots, u \in EnrollUsers, l \in EnrollLists, op \in EnrollOps :
    /\ last.reqs[s].pc = "idle"
    /\ last' = [last EXCEPT !.reqs[s] =
                  [NoInvocation EXCEPT !.pc = IF op = "enrollInExams" THEN "exams"
                                              ELSE "enrollment",
                                       !.op = op, !.userId = u, !.examIds = l]]
    /\ UNCHANGED <<mwVars, db, sent>>

\* enrollInExams: the loop that fetches each exam answers 404 on the first
\* identifier without a row (the exams do not change in the meantime).
EnrollFetchesExams ==
  \E s \in Slots :
    LET r == last.reqs[s] IN
    /\ r.pc = "exams"
    /\ last' = [last EXCEPT !.reqs[s] =
                  IF \E i \in DOMAIN r.examIds :
                       Len(fetchData(db.exams, [id |-> r.examIds[i]])) = 0
                    THEN [r EXCEPT !.pc = "done", !.status = NOT_FOUND]
                    ELSE [r EXCEPT !.pc = "enrollment"]]
    /\ UNCHANGED <<mwVars, db, sent>>

\* Both handlers: existingEnrollments = await db.fetchData(ENROLLMENTS_TABLE,
\* {user_id}); unenrollFromExams answers 404 when there is none.
EnrollFetchesEnrollment ==
  \E s \in Slots :
    LET r == last.reqs[s]
        existingEnrollments == fetchData(db.enrollments, [user_id |-> r.userId])
    IN
    /\ r.pc = "enrollment"
    /\ last' = [last EXCEPT !.reqs[s] =
                  IF r.op = "unenrollFromExams" /\ Len(existingEnrollments) = 0
                    THEN [r EXCEPT !.pc = "done", !.status = NOT_FOUND]
                    ELSE [r EXCEPT !.pc = "write",
                                   !.existingEnrollments = existingEnrollments]]
    /\ UNCHANGED <<mwVars, db, sent>>

\* enrollInExams writes: an update of the row it fetched, or an insert when
\* it fetched none, which the store refuses (23505) when the user has a row
\* by now; the handler's catch answers 500.
EnrollWrites ==
  \E s \in Slots :
    LET r == last.reqs[s]
        data == [user_id |-> r.userId, exam_ids |-> r.examIds]
    IN
    /\ r.pc = "write" /\ r.op = "enrollInExams"
    /\ IF Len(r.existingEnrollments) > 0
         THEN /\ db' = [db EXCEPT !.enrollments =
                          enrollUpdate(db.enrollments, r.existingEnrollments,
                                       r.examIds, r.userId)]
              /\ last' = [last EXCEPT !.reqs[s] = [r EXCEPT !.pc = "done", !.status = OK],
                                      !.writer[r.userId] = s]
         ELSE IF enrollments_user_id_unique(db.enrollments, data)
           THEN /\ db' = [db EXCEPT !.enrollments =
                            insertData("enrollments", db.enrollments, data).tbl]
                /\ last' = [last EXCEPT !.reqs[s] = [r EXCEPT !.pc = "done", !.status = OK],
                                        !.writer[r.userId] = s]
           ELSE /\ db' = db
                /\ last' = [last EXCEPT !.reqs[s] =
                              [r EXCEPT !.pc = "done", !.code = UNIQUE_VIOLATION,
                                        !.status = catchError(r.op, UNIQUE_VIOLATION)]]
    /\ UNCHANGED <<mwVars, sent>>

\* unenrollFromExams writes the fetched collection without the requested
\* identifiers.
UnenrollWrites ==
  \E s \in Slots :
    LET r == last.reqs[s]
        currentExamIds == r.existingEnrollments[1].exam_ids
        updatedExamIds == SelectSeq(currentExamIds, LAMBDA id : ~Includes(r.examIds, id))
    IN
    /\ r.pc = "write" /\ r.op = "unenrollFromExams"
    /\ db' = [db EXCEPT !.enrollments =
                updateData(db.enrollments, [exam_ids |-> updatedExamIds],
                           [user_id |-> r.userId])]
    /\ last' = [last EXCEPT !.reqs[s] = [r EXCEPT !.pc = "done", !.status = OK],
                            !.writer[r.userId] = s]
    /\ UNCHANGED <<mwVars, sent>>

\* The remote call the handler awaits fails: its catch answers 500.
EnrollCallFails ==
  \E s \in Slots :
    LET r == last.reqs[s] IN
    /\ r.pc \in {"exams", "enrollment", "write"}
    /\ last' = [last EXCEPT !.reqs[s] =
                  [r EXCEPT !.pc = "done", !.status = catchError(r.op, "none")]]
    /\ UNCHANGED <<mwVars, db, sent>>

\* The response is sent and the invocation ends.
EnrollAnswered ==
  \E s \in Slots :
    LET r == last.reqs[s] IN
    /\ r.pc = "done"
    /\ last' = [last EXCEPT !.reqs[s] = NoInvocation,
                            !.writer[r.userId] = IF @ = s THEN 0 ELSE @]
    /\ UNCHANGED <<mwVars, db, sent>>

EnrollNext ==
  \/ EnrollArrives \/ EnrollFetchesExams \/ EnrollFetchesEnrollment \/ EnrollWrites
  \/ UnenrollWrites \/ EnrollCallFails \/ EnrollAnswered

SpecEnroll == EnrollInit /\ [][EnrollNext]_vars

\* ------------------------------------------- the middleware chain, stepwise

RequiredConfigs ==
  {Undefined, Def(<<>>), Def(MANAGE_ROLES), Def(VIEW_ROLES), Def(ENROLL_ROLES),
   Def(VIEW_ALL_PROFILES_ROLES), Def(VIEW_ALL_ENROLLMENTS_ROLES)}

MwInit ==
  /\ client \in {c \in [roles : ClientRoleLists, form : Forms] :
                   c.form = "none" => c.roles = <<>>}
  /\ \E idh \in IdHeaders : headers = [id |-> idh, roles |-> Encode(client.form, client.roles)]
  /\ required \in RequiredConfigs
  /\ pc = "extractRoles"
  /\ userId = Undefined
  /\ userRoles = Undefined
  /\ status = GateNext
  /\ db = EmptyDb
  /\ last = NoRequest
  /\ sent = <<>>

ExtractRoles ==
  /\ pc = "extractRoles"
  /\ userRoles' = extractRoles(headers.roles)
  /\ pc' = "authMiddleware"
  /\ UNCHANGED <<client, headers, required, userId, status, db, last, sent>>

AuthMiddleware ==
  /\ pc = "authMiddleware"
  /\ userId' = Def(authUserId(headers.id))
  /\ userRoles' = authUserRoles(headers.roles)
  /\ pc' = "requireRoles"
  /\ UNCHANGED <<client, headers, required, status, db, last, sent>>

RequireRoles ==
  /\ pc = "requireRoles"
  /\ status' = requireRoles(required, userRoles)
  /\ pc' = IF status' = GateNext THEN "controller" ELSE "rejected"
  /\ UNCHANGED <<client, headers, required, userId, userRoles, db, last, sent>>

MwNext == ExtractRoles \/ AuthMiddleware \/ RequireRoles

SpecMw == MwInit /\ [][MwNext]_vars

\* ================================================================= claims

SetOf(list) == {list[i] : i \in DOMAIN list}
GateDone == pc \in {"controller", "rejected"}

\* C4: requireRoles(allowedRoles) decides from allowedRoles and the caller's
\* role set alone: an empty or absent allowedRoles continues for every caller;
\* otherwise an empty role set is rejected with 401; otherwise a role set
\* disjoint from allowedRoles is rejected with 403; otherwise it continues.
C4_RoleGateDecision ==
  GateDone =>
    LET allowed == IF required.def THEN SetOf(required.v) ELSE {}
        held == SetOf(userRoles.v)
    IN  /\ allowed = {} => pc = "controller"
        /\ allowed # {} /\ held = {} => pc = "rejected" /\ status = 401
        /\ allowed # {} /\ held # {} /\ held \cap allowed = {}
             => pc = "rejected" /\ status = 403
        /\ allowed # {} /\ held \cap allowed # {} => pc = "controller"

\* C4 witnesses: a caller with no roles continues past an empty allowedRoles;
\* callers are rejected with 401 and with 403 by a non-empty one.
C4_Witness ==
  /\ pc = "controller" /\ required = Def(<<>>) /\ userRoles = Def(<<>>)

\* C5: a request without a roles header, to a route whose allowed-role list is
\* not empty, is rejected with 401 and does not reach the controller.
C5_NoRolesHeaderUnauthorized ==
  (GateDone /\ ~headers.roles.def /\ required.def /\ required.v # <<>>)
    => (pc = "rejected" /\ status = UNAUTHORIZED)

\* C6: the comma-separated and the JSON-array encoding of the same roles give
\* the same role set on the request after the global chain, and the same Role
\* Gate decision.
C6_SameRolesBothEncodings ==
  (/\ pc \in {"requireRoles", "controller", "rejected"}
   /\ client.form = "csv" /\ client.roles # <<>>)
    => LET viaJson == globalChain(headers.id, Def(JsonHeader(client.roles)))
       IN /\ SetOf(userRoles.v) = SetOf(viaJson.userRoles.v)
          /\ GateDone => status = requireRoles(required, viaJson.userRoles)

\* ------------------------------------------------ claims about the routes

\* A response has been sent for the request in last; the controller ran.
Served == pc \in {"controller", "rejected"}
ControllerRan == pc = "controller"

UpdateOps == {"updateExam", "updateSubject", "updateTopic"}
DeleteOps == {"deleteExam", "deleteSubject", "deleteTopic"}
OwnedTables == {"exams", "subjects", "topics"}
TableOf(op) ==
  CASE op \in {"updateExam", "deleteExam"} -> "exams"
    [] op \in {"updateSubject", "deleteSubject"} -> "subjects"
    [] op \in {"updateTopic", "deleteTopic"} -> "topics"
    [] op \in {"updateTranslation", "deleteTranslation"} -> "translations"

ActiveReads ==
  {"getAllExams", "getExam", "getExamsByUser", "getExamWithSubjectsAndTopics",
   "getAllSubjects", "getSubject", "getSubjectsByUser", "getSubjectsByExam",
   "getAllTopics", "getTopic", "getTopicsByUser", "getTopicsBySubject",
   "getTopicsByExam", "getTranslationsByLanguage"}

\* The request in last is an update or a soft delete of an exam, subject or
\* topic, and names a row the table held when it arrived.
OnOwnedRow ==
  /\ Served
  /\ last.op \in UpdateOps \cup DeleteOps
  /\ last.id \in DOMAIN last.before[TableOf(last.op)]
RowBefore == last.before[TableOf(last.op)][last.id]
RowAfter == db[TableOf(last.op)][last.id]

\* The row is one the handler's own lookup finds: update looks the row up by
\* identifier, delete by identifier among the rows not yet deleted.
RowFound == last.op \in UpdateOps \/ ~RowBefore.is_deleted

HoldsManagerRole == SomeIn(userRoles.v, ManagerRoles)
IsOwner == RowBefore.user_id = userId.v
IsAdmin == Includes(userRoles.v, Str("admin"))
ManagerAndOwnerOrAdmin == HoldsManagerRole /\ (IsOwner \/ IsAdmin)

\* C1: for exams, subjects, topics and translations, a delete call that
\* succeeds marks the row deleted, no later request of any kind clears that
\* mark, and no active read (get-all, get-by-id, get-by-owner, get-by-parent,
\* the nested exam read, translations-by-language) returns a row that carries
\* it: once deleted, an identifier is never read again.
C1_DeletedNeverRead ==
  /\ (Served /\ last.op \in DeleteOps \cup {"deleteTranslation"} /\ status = OK)
       => db[TableOf(last.op)][last.id].is_deleted
  /\ \A t \in Tables : \A i \in DOMAIN last.before[t] :
       last.before[t][i].is_deleted => db[t][i].is_deleted
  /\ (Served /\ last.op \in ActiveReads)
       => \A t \in Tables : \A i \in last.rows[t] : ~db[t][i].is_deleted

\* C1 witness: a get-all over a table holding a deleted and a live row answers
\* with the live row only.
C1_Witness ==
  /\ Served /\ last.op = "getAllSubjects" /\ status = OK
  /\ \E i \in DOMAIN db.subjects : db.subjects[i].is_deleted
  /\ \E i \in DOMAIN db.subjects : i \in last.rows.subjects

\* C2 as stated: update and soft delete of an exam, subject or topic succeed
\* only for a requester with a manager role who is the owner or an admin, and
\* every other requester receives forbidden (403) and the row is unchanged
\* (the store answering).
C2_OthersReceiveForbidden ==
  (OnOwnedRow /\ status # INTERNAL_SERVER_ERROR)
    => /\ status = OK => ManagerAndOwnerOrAdmin
       /\ ~ManagerAndOwnerOrAdmin => (status = FORBIDDEN /\ db = last.before)

\* C2 amended: the request succeeds only for a requester with a manager role
\* who is the owner or an admin; every other requester is refused and the
\* whole store is left unchanged.  The refusal is 401 when the role set is
\* empty, 404 when the handler's lookup does not find the row (a delete of an
\* already deleted row), and forbidden (403) otherwise.
C2_OnlyManagerOwnerOrAdmin ==
  OnOwnedRow =>
    /\ status = OK => ManagerAndOwnerOrAdmin
    /\ ~ManagerAndOwnerOrAdmin =>
         /\ db = last.before
         /\ status \in {UNAUTHORIZED, FORBIDDEN, NOT_FOUND, INTERNAL_SERVER_ERROR}
         /\ status = UNAUTHORIZED <=> userRoles.v = <<>>
         /\ status = NOT_FOUND => (HoldsManagerRole /\ ~RowFound)
         /\ status = INTERNAL_SERVER_ERROR => HoldsManagerRole

\* C2 witness: a teacher who is not the owner is refused the update with 403.
C2_Witness ==
  /\ OnOwnedRow /\ last.op = "updateSubject" /\ last.body.name = "n2"
  /\ HoldsManagerRole /\ ~IsOwner /\ ~IsAdmin
  /\ status = FORBIDDEN /\ db = last.before

\* C3 as stated: the stored owner of the row, or a requester who holds an
\* elevated role (admin, teacher or org), succeeds in updating or deleting it
\* (the row being one the handler finds, the store answering).
C3_OwnerOrElevatedSucceeds ==
  (OnOwnedRow /\ RowFound /\ status # INTERNAL_SERVER_ERROR
     /\ (IsOwner \/ HoldsManagerRole))
    => status = OK

\* C3 amended: a requester who holds a manager role (teacher, org, admin) and
\* is the stored owner of the row or holds admin succeeds: the answer is 200,
\* an update writes the given name and a delete marks the row deleted and
\* inactive (the row being one the handler finds, the store answering).
C3_ManagerOwnerOrAdminSucceeds ==
  (OnOwnedRow /\ RowFound /\ status # INTERNAL_SERVER_ERROR /\ ManagerAndOwnerOrAdmin)
    => /\ status = OK
       /\ last.op \in UpdateOps =>
            RowAfter.name = IF Given(last.body.name) THEN last.body.name
                            ELSE RowBefore.name
       /\ last.op \in DeleteOps => (RowAfter.is_deleted /\ ~RowAfter.is_active)

\* C3 witness: an admin who is not the owner deletes the row.
C3_Witness ==
  /\ OnOwnedRow /\ last.op = "deleteTopic" /\ ~IsOwner /\ IsAdmin
  /\ status = OK /\ RowAfter.is_deleted /\ ~RowBefore.is_deleted

\* C7: a delete of an exam, subject, topic or translation succeeds only for a
\* requester with a manager role and marks the row deleted; when such a
\* requester then issues a delete on a row already marked deleted, the answer
\* is not-found (404, the store answering) and nothing is written.
C7_SecondDeleteNotFound ==
  (/\ Served /\ last.op \in DeleteOps \cup {"deleteTranslation"}
   /\ last.id \in DOMAIN last.before[TableOf(last.op)])
    => /\ status = OK => (HoldsManagerRole /\ ~RowBefore.is_deleted /\ RowAfter.is_deleted)
       /\ RowBefore.is_deleted =>
            /\ db = last.before
            /\ (HoldsManagerRole /\ status # INTERNAL_SERVER_ERROR) => status = NOT_FOUND

\* C7 witness: a second delete, by a manager, of a deleted translation.
C7_Witness ==
  /\ Served /\ last.op = "deleteTranslation"
  /\ last.id \in DOMAIN last.before.translations
  /\ RowBefore.is_deleted /\ HoldsManagerRole /\ status = NOT_FOUND

\* C8: deleted is terminal for exams, subjects and topics: a row that is
\* marked deleted when a request arrives (a create, update, delete, enroll or
\* read) is marked deleted and not active when the response is sent.
C8_DeletedIsTerminal ==
  \A t \in OwnedTables : \A i \in DOMAIN last.before[t] :
    last.before[t][i].is_deleted => (db[t][i].is_deleted /\ ~db[t][i].is_active)

\* C8 witness: an update of a deleted exam succeeds and writes its name, and
\* the row stays deleted.
C8_Witness ==
  /\ OnOwnedRow /\ last.op = "updateExam" /\ status = OK
  /\ RowBefore.is_deleted /\ RowAfter.name # RowBefore.name /\ RowAfter.is_deleted

\* C9: every exam, subject and topic row is Active (is_active, not
\* is_deleted) or Deleted (is_deleted, not is_active): is_active is the
\* negation of is_deleted, the store inserting rows as active and not deleted.
C9_ActiveIsNotDeleted ==
  \A t \in OwnedTables : \A i \in DOMAIN db[t] : db[t][i].is_active = ~db[t][i].is_deleted

\* C9 witness: a table holds a Deleted row and an Active row.
C9_Witness ==
  \E t \in OwnedTables : \E i, j \in DOMAIN db[t] :
    /\ db[t][i].is_deleted /\ ~db[t][i].is_active
    /\ db[t][j].is_active /\ ~db[t][j].is_deleted

\* Occurrences of x in a list.
RECURSIVE Count(_, _)
Count(list, x) ==
  IF list = <<>> THEN 0 ELSE (IF Head(list) = x THEN 1 ELSE 0) + Count(Tail(list), x)

EnrollmentOf(store, user) == fetchData(store.enrollments, [user_id |-> user])

\* C10: enrollment is idempotent: when a user whose stored collection already
\* holds every requested exam identifier (as it does after a first enroll
\* request for them) enrolls in them again, the stored collection holds each
\* of them exactly once and equals the collection the request found.
C10_EnrollTwice ==
  (/\ ControllerRan /\ last.op = "enrollInExams" /\ status = OK
   /\ Len(EnrollmentOf(last.before, userId.v)) > 0
   /\ \A i \in DOMAIN last.body.examIds.v :
        Includes(EnrollmentOf(last.before, userId.v)[1].exam_ids, last.body.examIds.v[i]))
    => LET was == EnrollmentOf(last.before, userId.v)[1].exam_ids
           is == EnrollmentOf(db, userId.v)[1].exam_ids
       IN /\ \A i \in DOMAIN last.body.examIds.v : Count(is, last.body.examIds.v[i]) = 1
          /\ is = was

\* C10 witness: a second enroll in an exam the user is enrolled in.
C10_Witness ==
  /\ ControllerRan /\ last.op = "enrollInExams" /\ status = OK
  /\ Len(EnrollmentOf(last.before, userId.v)) > 0
  /\ EnrollmentOf(last.before, userId.v)[1].exam_ids = last.body.examIds.v

\* C11: unenroll (identified requester, a non-empty list of identifiers, the
\* store answering): a requester with no enrollment row receives not-found
\* and nothing is written; otherwise the stored collection afterwards is the
\* previous collection without the requested identifiers, the others kept in
\* order.  No request removes an enrollment row, an emptied one included.
C11_Unenroll ==
  /\ Len(db.enrollments) >= Len(last.before.enrollments)
  /\ (/\ ControllerRan /\ last.op = "unenrollFromExams"
      /\ status \notin {UNAUTHORIZED, BAD_REQUEST, INTERNAL_SERVER_ERROR})
       => IF Len(EnrollmentOf(last.before, userId.v)) = 0
            THEN status = NOT_FOUND /\ db = last.before
            ELSE LET was == EnrollmentOf(last.before, userId.v)[1]
                     requested == SetOf(last.body.examIds.v)
                 IN /\ status = OK
                    /\ Len(db.enrollments) = Len(last.before.enrollments)
                    /\ db.enrollments[was.id].user_id = userId.v
                    /\ db.enrollments[was.id].exam_ids
                         = SelectSeq(was.exam_ids, LAMBDA id : id \notin requested)
                    /\ \A t \in Tables : db[t] = last.before[t]

\* C11 witness: an unenroll empties the collection and the row is still there.
C11_Witness ==
  /\ ControllerRan /\ last.op = "unenrollFromExams" /\ status = OK
  /\ EnrollmentOf(last.before, userId.v)[1].exam_ids # <<>>
  /\ Len(EnrollmentOf(db, userId.v)) = 1
  /\ EnrollmentOf(db, userId.v)[1].exam_ids = <<>>

\* C12: createTranslation with a key equal to the key of an existing
\* translation row, deleted or not, inserts no row, and the answer to a
\* request that passes the checks before the key lookup (english given, a
\* manager role held, the store answering) is conflict (409).
C12_DuplicateKeyConflict ==
  (/\ Served /\ last.op = "createTranslation"
   /\ \E i \in DOMAIN last.before.translations :
        last.before.translations[i].key = last.body.key)
    => /\ db = last.before
       /\ status # CREATED
       /\ (Given(last.body.english) /\ HoldsManagerRole /\ status # INTERNAL_SERVER_ERROR)
            => status = CONFLICT

\* C12 witness: the key of a deleted row is refused with 409.
C12_Witness ==
  /\ Served /\ last.op = "createTranslation" /\ status = CONFLICT
  /\ \E i \in DOMAIN db.translations :
       db.translations[i].key = last.body.key /\ db.translations[i].is_deleted
  /\ \A i \in DOMAIN db.translations :
       db.translations[i].key = last.body.key => db.translations[i].is_deleted

\* The keys of a batch, and whether the batch in last repeats a key or
\* carries the key of a row the table held.
BatchKeys == [i \in DOMAIN last.body.translations.v |-> last.body.translations.v[i].key]
BatchRepeatsKey == \E i, j \in DOMAIN BatchKeys : i # j /\ BatchKeys[i] = BatchKeys[j]
BatchHitsRow ==
  \E i \in DOMAIN BatchKeys : \E r \in DOMAIN last.before.translations :
    last.before.translations[r].key = BatchKeys[i]
BatchValid ==
  \A i \in DOMAIN last.body.translations.v :
    Given(last.body.translations.v[i].key) /\ Given(last.body.translations.v[i].english)

\* C13: bulkCreateTranslations rejects the whole batch and inserts none of its
\* items whenever a key of the batch is the key of an existing row or of
\* another item of the batch; a batch of valid items from a manager is
\* answered 400 for a repeated key and else 409 (the store answering).
C13_BulkRejectsWholeBatch ==
  (/\ Served /\ last.op = "bulkCreateTranslations" /\ last.body.translations.def
   /\ (BatchRepeatsKey \/ BatchHitsRow))
    => /\ db = last.before
       /\ status \in {BAD_REQUEST, FORBIDDEN, CONFLICT, INTERNAL_SERVER_ERROR}
       /\ (BatchValid /\ HoldsManagerRole /\ status # INTERNAL_SERVER_ERROR)
            => status = IF BatchRepeatsKey THEN BAD_REQUEST ELSE CONFLICT

\* C13 witness: a batch of a new key and the key of a row is answered 409 and
\* the new key is not inserted.
C13_Witness ==
  /\ Served /\ last.op = "bulkCreateTranslations" /\ last.body.translations.def
  /\ Len(BatchKeys) = 2 /\ ~BatchRepeatsKey /\ BatchHitsRow
  /\ \E i \in DOMAIN BatchKeys :
       \A r \in DOMAIN last.before.translations :
         last.before.translations[r].key # BatchKeys[i]
  /\ status = CONFLICT /\ db = last.before

\* C14: the translations table holds at most one row per key in every
\* reachable state, the requests (create, bulk create, update, delete) being
\* served one at a time.
C14_OneRowPerKey ==
  \A i, j \in DOMAIN db.translations :
    db.translations[i].key = db.translations[j].key => i = j

\* C14 witness: an update writes a row's key to the key of another row.
C14_Witness ==
  /\ Served /\ last.op = "updateTranslation" /\ status = OK
  /\ \E i \in DOMAIN db.translations :
       i # last.id /\ db.translations[i].key = db.translations[last.id].key

\* C15: no two topic rows of the same subject have the same name in any
\* reachable state, the requests (createTopic, updateTopicById) being served
\* one at a time.
C15_TopicNameUniqueInSubject ==
  \A i, j \in DOMAIN db.topics :
    (db.topics[i].subject_id = db.topics[j].subject_id
       /\ db.topics[i].name = db.topics[j].name) => i = j

\* C15 witness: an update writes a topic's name to the name of another topic
\* of its subject.
C15_Witness ==
  /\ Served /\ last.op = "updateTopic" /\ status = OK
  /\ \E i \in DOMAIN db.topics :
       /\ i # last.id
       /\ db.topics[i].subject_id = db.topics[last.id].subject_id
       /\ db.topics[i].name = db.topics[last.id].name
  /\ \A i, j \in DOMAIN last.before.topics :
       (last.before.topics[i].subject_id = last.before.topics[j].subject_id
          /\ last.before.topics[i].name = last.before.topics[j].name) => i = j

UsersOf(store, user) == fetchData(store.users, [user_id |-> user])

\* C16: the users table holds at most one row per user_id after any sequence
\* of authenticate requests served one at a time, and an authenticate that
\* succeeds for a user_id the table holds inserts nothing and writes the name
\* it carries into that row, in place.
C16_UpsertByUserId ==
  /\ \A i, j \in DOMAIN db.users : db.users[i].user_id = db.users[j].user_id => i = j
  /\ (/\ Served /\ last.op = "authenticate" /\ status = OK
      /\ Len(UsersOf(last.before, last.body.user_id)) > 0)
       => LET was == UsersOf(last.before, last.body.user_id)[1] IN
          /\ Len(db.users) = Len(last.before.users)
          /\ db.users[was.id].user_id = last.body.user_id
          /\ db.users[was.id].name = last.body.name
          /\ \A i \in DOMAIN db.users : i # was.id => db.users[i] = last.before.users[i]

\* C16 witness: a second authenticate of a user under another name.
C16_Witness ==
  /\ Served /\ last.op = "authenticate" /\ status = OK
  /\ Len(UsersOf(last.before, last.body.user_id)) > 0
  /\ UsersOf(last.before, last.body.user_id)[1].name # last.body.name
  /\ UsersOf(db, last.body.user_id)[1].name = last.body.name

\* C17: POST /auth/authenticate requires user_id alone: a body with a user_id
\* and no name and no role is accepted and the user upserted (the store
\* answering); a body with no user_id is rejected with bad-request (400).
C17_OnlyUserIdRequired ==
  (Served /\ last.op = "authenticate" /\ status # INTERNAL_SERVER_ERROR)
    => /\ (Given(last.body.user_id) /\ last.body.name = ABSENT /\ last.body.role = NoRole)
            => (status = OK /\ Len(UsersOf(db, last.body.user_id)) = 1)
       /\ ~Given(last.body.user_id) => status = BAD_REQUEST

\* C17 witness: a body with a user_id alone is answered 422 by the validation
\* and no user is written.
C17_Witness ==
  /\ Served /\ last.op = "authenticate"
  /\ Given(last.body.user_id) /\ last.body.name = ABSENT /\ last.body.role = NoRole
  /\ status = UNPROCESSABLE_ENTITY /\ db = last.before

CreateOps == {"createExam", "createSubject", "createTopic", "createTranslation"}
CreatedIn(op) ==
  CASE op = "createExam" -> "exams"
    [] op = "createSubject" -> "subjects"
    [] op = "createTopic" -> "topics"
    [] op = "createTranslation" -> "translations"

\* C18: a successful create of an exam, subject or topic inserts exactly one
\* row, whose user_id is the requester identifier taken from the identity
\* header (req.userId: the header's value when the request carries one), and
\* answers 201 carrying the created row; for a translation created_by and
\* updated_by are that identifier.  A create that does not answer 201 inserts
\* nothing.
C18_CreateStoresOwner ==
  (Served /\ last.op \in CreateOps)
    => LET t == CreatedIn(last.op)
           n == Len(last.before[t])
       IN IF status = CREATED
            THEN /\ Len(db[t]) = n + 1
                 /\ \A i \in 1..n : db[t][i] = last.before[t][i]
                 /\ \A u \in AllTables \ {t} : db[u] = last.before[u]
                 /\ last.rows = RowsOf(t, <<db[t][n + 1]>>)
                 /\ headers.id.def => userId.v = headers.id.v
                 /\ IF t = "translations"
                      THEN /\ db[t][n + 1].created_by = userId.v
                           /\ db[t][n + 1].updated_by = userId.v
                      ELSE db[t][n + 1].user_id = userId.v
            ELSE db = last.before

\* C18 witness: the second user creates an exam and owns it.
C18_Witness ==
  /\ Served /\ last.op = "createExam" /\ status = CREATED
  /\ headers.id = Def(Str("u2"))
  /\ db.exams[Len(db.exams)].user_id = Str("u2")
  /\ Len(db.exams) = Len(last.before.exams) + 1

\* C19: the data field of the success envelope is always a list: data that is
\* a list is kept, absent data becomes the empty list, and data that is not a
\* list (a single row object, an object of items and a count) is wrapped into
\* a list.
C19_SuccessDataIsList ==
  (pc = "done" /\ last.op = "sendSuccess")
    => /\ Len(sent) = 1
       /\ sent[1].status = "Success"
       /\ sent[1].data.kind = "array"
       /\ last.data.kind = "array" => sent[1].data = last.data
       /\ last.data.kind \in {"undefined", "null"} => sent[1].data = JsArray(<<>>)
       /\ last.data.kind = "object" => sent[1].data = JsArray(<<last.data>>)

\* C19 witness: a single row object is sent as it is, not in a list.
C19_Witness ==
  /\ pc = "done" /\ last.op = "sendSuccess"
  /\ last.data = Js("object", "row1", <<>>)
  /\ sent[1].data = last.data

\* The call that failed was requested once, no call more than once, and one
\* Failure envelope was sent, with status code.
FailedOnceAnswered(code) ==
  /\ last.requests[last.call] = 1
  /\ \A k \in DOMAIN last.requests : last.requests[k] <= 1
  /\ Len(sent) = 1
  /\ sent[1].status = "Failure"
  /\ sent[1].code = code

\* C20 as stated: whenever a Remote Table Client call fails inside a
\* controller, the client has issued exactly one request for the call, the
\* failure reaches the controller, and the controller answers exactly once,
\* with an internal-error (500) Failure envelope.
C20_FailureAnswered500 ==
  /\ Len(sent) <= 1
  /\ last.failed => pc \in {"clientCatch", "controllerCatch", "done"}
  /\ (pc = "done" /\ last.failed) => FailedOnceAnswered(INTERNAL_SERVER_ERROR)

\* C20 amended: the same, except that createTopic answers the failure with
\* conflict (409) when the error carries the unique-violation code 23505.
C20_FailureAnsweredOnce ==
  /\ Len(sent) <= 1
  /\ last.failed => pc \in {"clientCatch", "controllerCatch", "done"}
  /\ (pc = "done" /\ last.failed)
       => FailedOnceAnswered(IF last.op = "createTopic" /\ last.code = UNIQUE_VIOLATION
                               THEN CONFLICT ELSE INTERNAL_SERVER_ERROR)

\* C20 witness: the second call of a handler fails and the answer is 500.
C20_Witness ==
  /\ pc = "done" /\ last.failed /\ last.call = 2
  /\ last.requests = <<1, 1>>
  /\ Len(sent) = 1 /\ sent[1].code = INTERNAL_SERVER_ERROR

\* The parent column an update of the table may write (none for exams).
ParentColumns(op) ==
  CASE op = "updateSubject" -> {"exam_id"}
    [] op = "updateTopic" -> {"subject_id"}
    [] OTHER -> {}

\* Every row but the one the request in last names is as it was.
OtherRowsUnchanged ==
  \A t \in AllTables :
    /\ Len(db[t]) = Len(last.before[t])
    /\ \A i \in DOMAIN db[t] :
         (t # TableOf(last.op) \/ i # last.id) => db[t][i] = last.before[t][i]

\* The row after the update is the row before with the columns in written
\* replaced by the body's values.
RowPatchedWith(written) ==
  /\ DOMAIN RowAfter = DOMAIN RowBefore
  /\ \A c \in DOMAIN RowBefore :
       RowAfter[c] = IF c \in written THEN last.body[c] ELSE RowBefore[c]

\* C21 as stated: a successful update of an exam, subject or topic writes
\* exactly the updatable fields that are present in the request body (name,
\* description, and the parent identifier for subject and topic) and leaves
\* every other column of the row unchanged.
C21_UpdateWritesPresentFields ==
  (OnOwnedRow /\ last.op \in UpdateOps /\ status = OK)
    => RowPatchedWith({c \in {"name", "description"} : last.body[c] # ABSENT}
                        \cup {c \in ParentColumns(last.op) : last.body[c] # 0})

\* C21 amended: a successful update of an exam, subject or topic writes the
\* name when the body carries a non-empty one, the description when the body
\* carries one (null included) and the parent identifier (subject and topic)
\* when the body carries one; every other column of the row, in particular
\* the owner identifier, is_active and is_deleted, and every other row of the
\* store are left unchanged.
C21_UpdateWritesGivenFields ==
  (OnOwnedRow /\ last.op \in UpdateOps /\ status = OK)
    => /\ RowPatchedWith({c \in {"name"} : Given(last.body[c])}
                           \cup {c \in {"description"} : last.body[c] # ABSENT}
                           \cup {c \in ParentColumns(last.op) : last.body[c] # 0})
       /\ RowAfter.user_id = RowBefore.user_id
       /\ RowAfter.is_active = RowBefore.is_active
       /\ RowAfter.is_deleted = RowBefore.is_deleted
       /\ OtherRowsUnchanged

\* C21 witness: an admin who is not the owner updates a deleted subject with
\* an empty name, a null description and a parent: the name and the owner are
\* kept, the description and the parent written.
C21_Witness ==
  /\ OnOwnedRow /\ last.op = "updateSubject" /\ status = OK
  /\ last.body.name = "" /\ last.body.description = NULL /\ last.body.exam_id = 2
  /\ RowBefore.is_deleted /\ ~IsOwner
  /\ RowAfter.name = RowBefore.name /\ RowAfter.description = NULL
  /\ RowAfter.exam_id = 2 /\ RowBefore.exam_id = 1

\* ------------------------------------- claims about concurrent enrollment

\* The invocation in slot s has answered success.
Succeeded(s) == last.reqs[s].pc = "done" /\ last.reqs[s].status = OK

\* The collection the invocation in slot s computes from what it fetched.
ComputedBy(s) ==
  LET r == last.reqs[s] IN
  IF r.op = "unenrollFromExams"
    THEN SelectSeq(r.existingEnrollments[1].exam_ids, LAMBDA id : ~Includes(r.examIds, id))
  ELSE IF Len(r.existingEnrollments) > 0
    THEN Unique(r.existingEnrollments[1].exam_ids \o r.examIds)
  ELSE r.examIds

\* C22: the store keeps the collection of the last writer: while the
\* response of the invocation that wrote a user's row last is pending, the
\* stored collection is the one that invocation computed from the row it
\* fetched, whatever another invocation wrote between its fetch and its
\* write.  So two concurrent enroll requests of a user with a row, naming
\* different exams, can both answer success while the stored collection lacks
\* one of the two identifiers (the witness).
C22_LastWriterWins ==
  \A u \in EnrollUsers :
    last.writer[u] # 0 =>
      /\ Succeeded(last.writer[u])
      /\ last.reqs[last.writer[u]].userId = u
      /\ EnrollmentOf(db, u)[1].exam_ids = ComputedBy(last.writer[u])

\* C22 witness: the lost update.  Both invocations are enroll requests of the
\* same user, both fetched the user's row, both answered success, they name
\* different exams, and the stored collection lacks one of the two.
C22_Witness ==
  /\ Succeeded(1) /\ Succeeded(2)
  /\ last.reqs[1].op = "enrollInExams" /\ last.reqs[2].op = "enrollInExams"
  /\ last.reqs[1].userId = last.reqs[2].userId
  /\ Len(last.reqs[1].existingEnrollments) > 0
  /\ Len(last.reqs[2].existingEnrollments) > 0
  /\ last.reqs[1].examIds = <<1>> /\ last.reqs[2].examIds = <<2>>
  /\ LET stored == EnrollmentOf(db, last.reqs[1].userId)[1].exam_ids
     IN ~Includes(stored, 1) \/ ~Includes(stored, 2)

\* C23: in every reachable state the enrollments table holds at most one row
\* per user identifier, two concurrent first enrolls of a user included: both
\* fetch no row and both insert, and the store refuses the second insert.
C23_OneRowPerUser ==
  \A u \in EnrollUsers : Len(EnrollmentOf(db, u)) <= 1

\* C23 witness: two enroll requests of a user that both fetched no row have
\* both attempted the insert; one answered success, the other 500 on the
\* unique violation, and the table holds one row for the user.
C23_Witness ==
  /\ last.reqs[1].op = "enrollInExams" /\ last.reqs[2].op = "enrollInExams"
  /\ last.reqs[1].userId = last.reqs[2].userId
  /\ last.reqs[1].pc = "done" /\ last.reqs[2].pc = "done"
  /\ last.reqs[1].existingEnrollments = <<>> /\ last.reqs[2].existingEnrollments = <<>>
  /\ last.reqs[1].status = OK
  /\ last.reqs[2].status = INTERNAL_SERVER_ERROR /\ last.reqs[2].code = UNIQUE_VIOLATION
  /\ Len(EnrollmentOf(db, last.reqs[1].userId)) = 1

\* The statuses of a rejection.
Rejections == {BAD_REQUEST, UNAUTHORIZED, FORBIDDEN, NOT_FOUND, CONFLICT, UNPROCESSABLE_ENTITY}

\* createTopic's own lookup finds a topic of the name in the subject.
TopicLookupFinds ==
  Len(fetchData(last.before.topics,
                [name |-> last.body.name, subject_id |-> last.body.subject_id])) > 0

C25_NoRepeatedExamId ==
  \A i \in DOMAIN db.enrollments :
    \A x \in SetOf(db.enrollments[i].exam_ids) : Count(db.enrollments[i].exam_ids, x) = 1

\* C25 witness: the first enroll of a user, its body naming an exam twice,
\* answered success and the stored collection is the body's list.
C25_Witness ==
  /\ ControllerRan /\ last.op = "enrollInExams" /\ status = OK
  /\ Len(EnrollmentOf(last.before, userId.v)) = 0
  /\ last.body.examIds.v = <<1, 1>>
  /\ EnrollmentOf(db, userId.v)[1].exam_ids = <<1, 1>>

\* The user whose enrollments the request in last asks for.
RequestedUser == IF last.query # <<>> THEN last.query ELSE userId.v

\* C26: enrollInExams checks each exam's existence without the soft-delete
\* flags, and viewMyEnrollments and viewAllEnrollments fetch each enrolled
\* exam by identifier alone.  So an enroll request (identified requester,
\* non-empty list, the store answering) succeeds exactly when every named
\* identifier has an exam row, deleted or not, and the two views return every
\* exam of the stored collections that has a row, deleted or not.
C26_DeletedExamsEnrolledAndViewed ==
  /\ (/\ ControllerRan /\ last.op = "enrollInExams"
      /\ status \notin {UNAUTHORIZED, BAD_REQUEST, INTERNAL_SERVER_ERROR})
       => (status = OK <=> \A i \in DOMAIN last.body.examIds.v :
                             last.body.examIds.v[i] \in DOMAIN last.before.exams)
  /\ (ControllerRan /\ last.op = "getUserEnrollments" /\ status = OK)
       => last.rows.exams =
            UNION {SetOf(db.enrollments[i].exam_ids) \cap DOMAIN db.exams :
                     i \in {j \in DOMAIN db.enrollments :
                              db.enrollments[j].user_id = RequestedUser}}
  /\ (ControllerRan /\ last.op = "getAllEnrollments" /\ status = OK)
       => last.rows.exams =
            UNION {SetOf(db.enrollments[i].exam_ids) \cap DOMAIN db.exams :
                     i \in DOMAIN db.enrollments}

\* C26 witness: a student views their own enrollments and the answer holds an
\* exam that is soft-deleted.
C26_Witness ==
  /\ ControllerRan /\ last.op = "getUserEnrollments" /\ status = OK
  /\ Includes(userRoles.v, Str("student"))
  /\ \E e \in last.rows.exams : db.exams[e].is_deleted /\ ~db.exams[e].is_active

\* The translations table after the first j items of the batch were
\* inserted, requester being the user the rows are attributed to.
BatchInserted(j) ==
  LET items == last.body.translations.v
      datas == [i \in 1..j |->
                  [key |-> items[i].key, english |-> items[i].english,
                   is_published |-> IF items[i].is_published.def
                                      THEN items[i].is_published.v ELSE FALSE,
                   created_by |-> userId.v, updated_by |-> userId.v]]
  IN InsertEach(last.before.translations, datas).tbl

\* C27: bulkCreateTranslations inserts its items one at a time after all its
\* checks, and no insert is undone: an answer of 201 leaves every item of the
\* batch stored; when the k-th insert fails the answer is internal-error
\* (500) and the first k-1 items, in order, are stored; when a lookup fails
\* the answer is 500 and nothing is stored.  The other tables are as they
\* were.
C27_BulkInsertsNotRolledBack ==
  (Served /\ last.op = "bulkCreateTranslations" /\ status \in {CREATED, INTERNAL_SERVER_ERROR})
    => LET n == Len(last.body.translations.v) IN
       /\ [db EXCEPT !.translations = last.before.translations] = last.before
       /\ status = CREATED => db.translations = BatchInserted(n)
       /\ last.failedInsert \in 0..n
       /\ last.failedInsert # 0
            => (status = INTERNAL_SERVER_ERROR
                  /\ db.translations = BatchInserted(last.failedInsert - 1))
       /\ (status = INTERNAL_SERVER_ERROR /\ last.failedInsert = 0) => db = last.before

\* C27 witness: the second insert of a batch of two fails: the answer is 500
\* and the first item is stored, the second is not.
C27_Witness ==
  /\ Served /\ last.op = "bulkCreateTranslations" /\ status = INTERNAL_SERVER_ERROR
  /\ Len(last.body.translations.v) = 2 /\ last.failedInsert = 2
  /\ Len(db.translations) = Len(last.before.translations) + 1
  /\ db.translations[Len(db.translations)].key = last.body.translations.v[1].key

\* The literal the Identity Resolver substitutes for a missing header.
Anonymous == Str("anonymous")

\* C28: a request without an identity header is served as 'anonymous'.  A
\* create of an exam, subject or topic that carries no identity header is
\* never rejected for a missing identifier: with a name given (and the store
\* answering) it answers 201, or 409 for a topic name in use, and the row is
\* stored with owner 'anonymous'.  A later caller without an identity header
\* who holds a manager role passes the ownership check of such a row: the
\* update or soft delete of a row owned by 'anonymous' that the handler finds
\* answers 200.
C28_AnonymousOwnsAndManages ==
  /\ (Served /\ ~headers.id.def) => userId.v = Anonymous
  /\ (/\ ControllerRan /\ last.op \in {"createExam", "createSubject", "createTopic"}
      /\ ~headers.id.def /\ Given(last.body.name) /\ status # INTERNAL_SERVER_ERROR)
       => /\ status \in {CREATED, CONFLICT}
          /\ status = CONFLICT => last.op = "createTopic"
          /\ status = CREATED =>
               db[CreatedIn(last.op)][Len(db[CreatedIn(last.op)])].user_id = Anonymous
  /\ (/\ OnOwnedRow /\ RowFound /\ ~headers.id.def /\ HoldsManagerRole
      /\ RowBefore.user_id = Anonymous /\ status # INTERNAL_SERVER_ERROR)
       => /\ status = OK
          /\ last.op \in DeleteOps => RowAfter.is_deleted

\* C28 witness: a teacher without an identity header soft-deletes an exam
\* that was created without an identity header.
C28_Witness ==
  /\ OnOwnedRow /\ last.op = "deleteExam" /\ ~headers.id.def /\ HoldsManagerRole
  /\ RowBefore.user_id = Anonymous /\ ~RowBefore.is_deleted
  /\ status = OK /\ RowAfter.is_deleted

\* The users row of the body's user_id before and after the request.
UserBefore == UsersOf(last.before, last.body.user_id)[1]
UserAfter == UsersOf(db, last.body.user_id)[1]

\* C29: authenticate on an existing user is not a partial update: when the
\* body leaves out is_approved or is_anonymous the stored value becomes false,
\* and when it leaves out gender (dob and profile_picture are built the same
\* way) the stored value becomes null, whatever the previous values; a value
\* the body carries is the one stored.
C29_AuthenticateOverwritesDefaults ==
  (/\ ControllerRan /\ last.op = "authenticate" /\ status = OK
   /\ Len(UsersOf(last.before, last.body.user_id)) > 0)
    => /\ UserAfter.is_approved = (last.body.is_approved.def /\ last.body.is_approved.v)
       /\ UserAfter.is_anonymous = (last.body.is_anonymous.def /\ last.body.is_anonymous.v)
       /\ UserAfter.gender = IF Given(last.body.gender) THEN last.body.gender ELSE NULL

\* C29 witness: a user stored as approved, anonymous and with a gender
\* authenticates again with a body that carries none of the three: the row
\* is then not approved, not anonymous and without gender.
C29_Witness ==
  /\ ControllerRan /\ last.op = "authenticate" /\ status = OK
  /\ Len(UsersOf(last.before, last.body.user_id)) > 0
  /\ UserBefore.is_approved /\ UserBefore.is_anonymous /\ UserBefore.gender = "f"
  /\ ~last.body.is_approved.def /\ ~last.body.is_anonymous.def /\ last.body.gender = ABSENT
  /\ ~UserAfter.is_approved /\ ~UserAfter.is_anonymous /\ UserAfter.gender = NULL

\* The rows of table that are active and not deleted and match filter.
ActiveRows(store, table, filter) ==
  {store[table][i].id : i \in {j \in DOMAIN store[table] :
      /\ store[table][j].is_active /\ ~store[table][j].is_deleted
      /\ Matches(store[table][j], filter)}}

\* C30: soft delete does not cascade.  A successful soft delete of an exam
\* changes only that exam row and a successful soft delete of a subject only
\* that subject row, so the subjects of a deleted exam and the topics of a
\* deleted subject keep their flags; getAllSubjects, getSubjectsByExam,
\* getAllTopics and getTopicsBySubject answer the rows whose own flags say
\* active and not deleted, whatever the flags of the parent.
C30_SoftDeleteDoesNotCascade ==
  /\ (ControllerRan /\ last.op \in {"deleteExam", "deleteSubject"} /\ status = OK)
       => OtherRowsUnchanged
  /\ (ControllerRan /\ status = OK /\ last.op = "getAllSubjects")
       => last.rows.subjects = ActiveRows(db, "subjects", <<>>)
  /\ (ControllerRan /\ status = OK /\ last.op = "getSubjectsByExam")
       => last.rows.subjects = ActiveRows(db, "subjects", [exam_id |-> last.id])
  /\ (ControllerRan /\ status = OK /\ last.op = "getAllTopics")
       => last.rows.topics = ActiveRows(db, "topics", <<>>)
  /\ (ControllerRan /\ status = OK /\ last.op = "getTopicsBySubject")
       => last.rows.topics = ActiveRows(db, "topics", [subject_id |-> last.id])

\* C30 witness: the exam and its subject are both soft-deleted, and
\* getTopicsBySubject of the deleted subject still answers its topic.
C30_Witness ==
  /\ ControllerRan /\ status = OK /\ last.op = "getTopicsBySubject" /\ last.id = 1
  /\ db.exams[1].is_deleted /\ db.subjects[1].is_deleted
  /\ db.topics[1].is_active /\ ~db.topics[1].is_deleted
  /\ last.rows.topics = {1}

====
